---------------------------- MODULE Spec2Model ----------------------------
(***************************************************************************)
(* Training-load analytics of activity-analyser (Rust).                    *)
(*                                                                         *)
(* The analytics are pure functions; each is an operator translated from   *)
(* its source, and each component has a specification whose initial state  *)
(* draws the inputs from bounded sets and whose actions apply the          *)
(* functions:                                                              *)
(*   SpecDaily  SortedDailyTSS::from_unsorted, DailyStats::calc_rolling    *)
(*   SpecTSS    calc_tss / TSS::calculate                                  *)
(*   SpecNP     calc_normalized_power                                      *)
(*   SpecPeak   Peak::from_measurement_records, PeakPerformances::get_one  *)
(*   SpecHr     calc_hr_tss / TSS::calculate_hr_tss                        *)
(*   SpecAlt    calc_altitude_changes                                      *)
(*   SpecAth    MeasurementRecords::new, get_actual_ftp, get_actual_fthr   *)
(*   SpecAct    ActivityAnalysis::from_activity                            *)
(*   SpecMulti  the peak aggregation of multi_activity                     *)
(*                                                                         *)
(* Conventions                                                             *)
(*   Option<T>   None is << >>, Some(x) is << x >>.                        *)
(*   NaiveDate   a day number (an integer); Days::new(k) adds k.           *)
(*   f64 loads   CTL, ATL and TSB are IEEE-754 binary64 values, computed   *)
(*               bit for bit (see the section on f64).                     *)
(***************************************************************************)
EXTENDS Integers, Sequences, FiniteSets, TLC

VARIABLES
    pc,          \* position of the driver of the component under check
    raw,         \* daily: the unsorted DailyTSS list handed to from_unsorted
    cpN,         \* daily: Option<DailyStats> handed to from_unsorted
    sorted,      \* daily: the SortedDailyTSS returned by from_unsorted
    cpR,         \* daily: Option<DailyStats> handed to calc_rolling
    daily_stats, \* daily: the Vec<DailyStats> returned by calc_rolling
    arg_ftp,         \* tss: threshold power (Power)
    arg_duration,    \* tss: activity duration in seconds (Duration)
    arg_np, \* tss: Normalized Power (Power)
    res_tss,     \* tss: Option of the TSS returned by calc_tss
    res_tss_metrics, \* tss: Option of the TSS returned by TSS::calculate
    arg_power,  \* np: the power stream (Vec<Power>)
    res_np,      \* np: Option of the Option<Power> of calc_normalized_power
    input,       \* call: the arguments of the function under check (a record)
    output       \* call: Option of what the function returned, or its progress

dailyVars == << raw, cpN, sorted, cpR, daily_stats >>
tssVars == << arg_ftp, arg_duration, arg_np, res_tss, res_tss_metrics >>
npVars == << arg_power, res_np >>
callVars == << input, output >>
vars == << pc, dailyVars, tssVars, npVars, callVars >>

None == << >>
Some(x) == << x >>

-----------------------------------------------------------------------------
(* Bounds of the daily model.                                              *)

\* raw lists have at most MaxRaw entries
MaxRaw == 2
\* raw entries and checkpoints are dated 0 .. MaxDay
MaxDay == 2
\* fuel of the scan of calc_rolling taken step by step (SpecScan): the endless
\* ending_days iterator is followed for at most ScanCap extension days
ScanCap == 400

\* TSS values of raw entries: tiny, and an easy ride
TSSVals == {1, 20}

-----------------------------------------------------------------------------
(* IEEE-754 binary64 (f64).                                                *)
(*                                                                         *)
(* An f64 is a record [sign, exp, hi, lo].  A finite one stands for        *)
(*     (-1)^sign * (hi * 2^28 + lo) * 2^exp                                *)
(* where the significand hi * 2^28 + lo is in 2^52 .. 2^53 - 1 (normal,    *)
(* exp in -1074 .. 971), or below 2^52 with exp = -1074 (subnormal), or 0  *)
(* with exp = 0 (a zero, which keeps its sign).  exp = 972 marks an        *)
(* infinity (significand 0) or a NaN (any other significand; the bits of a *)
(* NaN are those x86-64 produces, and the program never looks at them).    *)
(* Products, quotients, sums and differences are computed exactly on       *)
(* integers of four 28-bit limbs (least significant first) and rounded     *)
(* once, to nearest with ties to even, as the hardware does.               *)

\* the base of a limb of a wide integer
Wide == 2^28
\* the base of a half limb, for products
Half == 2^14

\* the exponent of the least bit of the smallest normal f64 and of every
\* subnormal one, and the exponent that marks an infinity or a NaN
MinExp == -1022 - 52
InfExp == 1024 - 52

Abs(x) == IF x < 0 THEN -x ELSE x

F64(sign, exp, hi, lo) == [sign |-> sign, exp |-> exp, hi |-> hi, lo |-> lo]

\* 0.0
F64Zero == F64(0, 0, 0, 0)

\* f64::INFINITY and f64::NEG_INFINITY
F64Inf(sign) == F64(sign, InfExp, 0, 0)

\* the NaN that an invalid operation produces
F64NaN == F64(1, InfExp, 2^23, 0)

IsNaN(x) == x.exp = InfExp /\ (x.hi # 0 \/ x.lo # 0)
IsInf(x) == x.exp = InfExp /\ x.hi = 0 /\ x.lo = 0
IsZero(x) == x.exp # InfExp /\ x.hi = 0 /\ x.lo = 0

\* F(v), with v evaluated once, before F is applied to it (F uses its argument
\* many times)
Eager(v, F(_)) == CHOOSE r \in {F(x) : x \in {v}} : TRUE

\* limb i of the wide integer n, 0 outside of it
LimbAt(n, i) == IF i >= 1 /\ i <= Len(n) THEN n[i] ELSE 0

\* n * 2^k as four limbs (no bit is lost for the k used)
ShiftLeft(n, k) ==
    LET q   == k \div 28
        r   == k % 28
        low == 2^(28 - r)
        Limb(i) == (LimbAt(n, i - q) % low) * 2^r + (LimbAt(n, i - q - 1) \div low)
    IN  << Limb(1), Limb(2), Limb(3), Limb(4) >>

\* n \div 2^k as four limbs
ShiftRight(n, k) ==
    LET q  == k \div 28
        r  == k % 28
        up == 2^r
        Limb(i) == (LimbAt(n, i + q) \div up) + (LimbAt(n, i + q + 1) % up) * 2^(28 - r)
    IN  << Limb(1), Limb(2), Limb(3), Limb(4) >>

\* bit k (0 = least significant) of n
BitAt(n, k) == (LimbAt(n, k \div 28 + 1) \div 2^(k % 28)) % 2

\* n % 2^k # 0
LowNonZero(n, k) ==
    \/ \E i \in 1 .. k \div 28 : LimbAt(n, i) # 0
    \/ LimbAt(n, k \div 28 + 1) % 2^(k % 28) # 0

\* the number of bits of v >= 0
RECURSIVE BitLenInt(_)
BitLenInt(v) ==
    IF v = 0 THEN 0
    ELSE IF v >= Half THEN 14 + BitLenInt(v \div Half)
    ELSE IF v >= 128 THEN 7 + BitLenInt(v \div 128)
    ELSE 1 + BitLenInt(v \div 2)

\* the number of bits of the wide integer n
BitLen(n) ==
    IF n[4] # 0 THEN 84 + BitLenInt(n[4])
    ELSE IF n[3] # 0 THEN 56 + BitLenInt(n[3])
    ELSE IF n[2] # 0 THEN 28 + BitLenInt(n[2])
    ELSE BitLenInt(n[1])

\* a + b on wide integers
AddWide(a, b) ==
    LET s1 == a[1] + b[1]
        s2 == a[2] + b[2] + (s1 \div Wide)
        s3 == a[3] + b[3] + (s2 \div Wide)
        s4 == a[4] + b[4] + (s3 \div Wide)
    IN  << s1 % Wide, s2 % Wide, s3 % Wide, s4 % Wide >>

\* a - b on wide integers, for a >= b
SubWide(a, b) ==
    LET d1 == a[1] - b[1]
        d2 == a[2] - b[2] - (IF d1 < 0 THEN 1 ELSE 0)
        d3 == a[3] - b[3] - (IF d2 < 0 THEN 1 ELSE 0)
        d4 == a[4] - b[4] - (IF d3 < 0 THEN 1 ELSE 0)
    IN  << d1 % Wide, d2 % Wide, d3 % Wide, d4 % Wide >>

\* a < b on wide integers
LessWide(a, b) ==
    \/ a[4] < b[4]
    \/ a[4] = b[4] /\ a[3] < b[3]
    \/ a[4] = b[4] /\ a[3] = b[3] /\ a[2] < b[2]
    \/ a[4] = b[4] /\ a[3] = b[3] /\ a[2] = b[2] /\ a[1] < b[1]

\* the significand of x as a wide integer
Significand(x) == << x.lo, x.hi, 0, 0 >>

\* the f64 of a significand m < 2^53 with least bit 2^e: an infinity beyond
\* f64::MAX, a zero for m = 0
Finite(sign, e, m) ==
    IF m[1] = 0 /\ m[2] = 0 THEN F64(sign, 0, 0, 0)
    ELSE IF e > InfExp - 1 THEN F64Inf(sign)
    ELSE F64(sign, e, m[2], m[1])

\* n \div 2^s for s > 0, rounded to the nearest, ties to even
RoundShift(n, s) ==
    Eager(ShiftRight(n, s),
          LAMBDA q :
              IF BitAt(n, s - 1) = 1 /\ (LowNonZero(n, s - 1) \/ q[1] % 2 = 1)
              THEN AddWide(q, << 1, 0, 0, 0 >>)
              ELSE q)

\* the f64 nearest to (-1)^sign * n * 2^e, ties to even: 53 bits are kept, or
\* those from 2^MinExp on when the value is below the normal range
RoundWide(sign, n, e) ==
    Eager(BitLen(n),
          LAMBDA len :
              LET lsb == IF e + len - 53 < MinExp THEN MinExp ELSE e + len - 53
              IN  IF len = 0 THEN F64Zero
                  ELSE IF lsb <= e
                  THEN Eager(ShiftLeft(n, e - lsb), LAMBDA m : Finite(sign, lsb, m))
                  ELSE Eager(RoundShift(n, lsb - e),
                             LAMBDA m :
                                 IF m[2] = 2^25
                                 THEN Finite(sign, lsb + 1, << 0, 2^24, 0, 0 >>)
                                 ELSE Finite(sign, lsb, m)))

Round(sign, n, e) == Eager(n, LAMBDA w : RoundWide(sign, w, e))

\* x * y, for x and y at hand
Product(x, y) ==
    LET sign == (x.sign + y.sign) % 2
    IN  IF IsNaN(x) THEN x
        ELSE IF IsNaN(y) THEN y
        ELSE IF IsInf(x) \/ IsInf(y)
        THEN (IF IsZero(x) \/ IsZero(y) THEN F64NaN ELSE F64Inf(sign))
        ELSE IF IsZero(x) \/ IsZero(y) THEN F64(sign, 0, 0, 0)
        ELSE LET a0 == x.lo % Half
                 a1 == x.lo \div Half
                 a2 == x.hi % Half
                 a3 == x.hi \div Half
                 b0 == y.lo % Half
                 b1 == y.lo \div Half
                 b2 == y.hi % Half
                 b3 == y.hi \div Half
                 t0 == a0 * b0
                 t1 == a0 * b1 + a1 * b0 + (t0 \div Half)
                 t2 == a0 * b2 + a1 * b1 + a2 * b0 + (t1 \div Half)
                 t3 == a0 * b3 + a1 * b2 + a2 * b1 + a3 * b0 + (t2 \div Half)
                 t4 == a1 * b3 + a2 * b2 + a3 * b1 + (t3 \div Half)
                 t5 == a2 * b3 + a3 * b2 + (t4 \div Half)
                 t6 == a3 * b3 + (t5 \div Half)
                 t7 == t6 \div Half
             IN  Round(sign,
                       << (t0 % Half) + (t1 % Half) * Half,
                          (t2 % Half) + (t3 % Half) * Half,
                          (t4 % Half) + (t5 % Half) * Half,
                          (t6 % Half) + t7 * Half >>,
                       x.exp + y.exp)

\* x * y
F64Mul(x, y) == Eager(<< x, y >>, LAMBDA p : Product(p[1], p[2]))

\* x + y, for x and y at hand
Sum(x, y) ==
    IF IsNaN(x) THEN x
    ELSE IF IsNaN(y) THEN y
    ELSE IF IsInf(x) THEN (IF IsInf(y) /\ x.sign # y.sign THEN F64NaN ELSE x)
    ELSE IF IsInf(y) THEN y
    ELSE IF IsZero(y) THEN (IF IsZero(x) /\ x.sign # y.sign THEN F64Zero ELSE x)
    ELSE IF IsZero(x) THEN y
    ELSE LET big   == IF x.exp >= y.exp THEN x ELSE y
             small == IF x.exp >= y.exp THEN y ELSE x
             diff  == big.exp - small.exp
         IN  IF diff >= 56 THEN big
             ELSE LET b == ShiftLeft(Significand(big), diff)
                      s == Significand(small)
                  IN  IF big.sign = small.sign
                      THEN Round(big.sign, AddWide(b, s), small.exp)
                      ELSE IF LessWide(b, s)
                      THEN Round(small.sign, SubWide(s, b), small.exp)
                      ELSE Round(big.sign, SubWide(b, s), small.exp)

\* x + y
F64Add(x, y) == Eager(<< x, y >>, LAMBDA p : Sum(p[1], p[2]))

\* -x
F64Neg(x) == [x EXCEPT !.sign = 1 - @]

\* x - y
F64Sub(x, y) ==
    Eager(<< x, y >>,
          LAMBDA p : IF IsNaN(p[1]) THEN p[1]
                     ELSE IF IsNaN(p[2]) THEN p[2]
                     ELSE Sum(p[1], F64Neg(p[2])))

\* d * c on wide integers, for 0 <= c <= 7
TimesDigit(d, c) ==
    LET p1 == d[1] * c
        p2 == d[2] * c + (p1 \div Wide)
        p3 == d[3] * c + (p2 \div Wide)
        p4 == d[4] * c + (p3 \div Wide)
    IN  << p1 % Wide, p2 % Wide, p3 % Wide, p4 % Wide >>

\* one digit of the long division in base 8: qr is << quotient so far,
\* remainder >>, the remainder below the divisor; multiples[c] is the divisor
\* times c
DivDigit(qr, multiples) ==
    LET r == ShiftLeft(qr[2], 3)
        q == ShiftLeft(qr[1], 3)
        c == Cardinality({i \in 1 .. 7 : ~LessWide(r, multiples[i])})
    IN  IF c = 0 THEN << q, r >>
        ELSE << AddWide(q, << c, 0, 0, 0 >>), SubWide(r, multiples[c]) >>

\* k digits of the long division, one after the other (the first half of
\* them, then the rest)
RECURSIVE DivDigits(_, _, _)
DivDigits(qr, multiples, k) ==
    IF k = 0 THEN qr
    ELSE IF k = 1 THEN Eager(qr, LAMBDA p : DivDigit(p, multiples))
    ELSE Eager(DivDigits(qr, multiples, k \div 2),
               LAMBDA half : DivDigits(half, multiples, k - k \div 2))

\* x / y for finite x and y other than zero: 58 or 59 bits of the quotient of
\* the significands (each brought to 53 bits), the last one set when the
\* division left a remainder, rounded once
Quotient(x, y) ==
    LET sign == (x.sign + y.sign) % 2
        kx   == 53 - BitLen(Significand(x))
        ky   == 53 - BitLen(Significand(y))
    IN  Eager(<< ShiftLeft(Significand(x), kx),
                 [c \in 1 .. 7 |-> TimesDigit(ShiftLeft(Significand(y), ky), c)] >>,
              LAMBDA m :
                  LET ge == ~LessWide(m[1], m[2][1])
                      q0 == IF ge THEN << 1, 0, 0, 0 >> ELSE << 0, 0, 0, 0 >>
                      r0 == IF ge THEN SubWide(m[1], m[2][1]) ELSE m[1]
                  IN  Eager(DivDigits(<< q0, r0 >>, m[2], 19),
                            LAMBDA qr :
                                LET q == ShiftLeft(qr[1], 1)
                                    n == IF qr[2] = << 0, 0, 0, 0 >> THEN q
                                         ELSE AddWide(q, << 1, 0, 0, 0 >>)
                                IN  Round(sign, n, (x.exp - kx) - (y.exp - ky) - 58)))

\* x / y, for x and y at hand
Ratio(x, y) ==
    LET sign == (x.sign + y.sign) % 2
    IN  IF IsNaN(x) THEN x
        ELSE IF IsNaN(y) THEN y
        ELSE IF IsInf(x) THEN (IF IsInf(y) THEN F64NaN ELSE F64Inf(sign))
        ELSE IF IsInf(y) THEN F64(sign, 0, 0, 0)
        ELSE IF IsZero(y) THEN (IF IsZero(x) THEN F64NaN ELSE F64Inf(sign))
        ELSE IF IsZero(x) THEN F64(sign, 0, 0, 0)
        ELSE Quotient(x, y)

\* x / y
F64Div(x, y) == Eager(<< x, y >>, LAMBDA p : Ratio(p[1], p[2]))

\* |x| < |y| for x and y other than zero and NaN
MagLt(x, y) ==
    \/ x.exp < y.exp
    \/ x.exp = y.exp /\ x.hi < y.hi
    \/ x.exp = y.exp /\ x.hi = y.hi /\ x.lo < y.lo

\* x < y, for x and y at hand
Less(x, y) ==
    IF IsNaN(x) \/ IsNaN(y) THEN FALSE
    ELSE IF IsZero(x) THEN ~IsZero(y) /\ y.sign = 0
    ELSE IF IsZero(y) THEN x.sign = 1
    ELSE IF x.sign # y.sign THEN x.sign = 1
    ELSE IF x.sign = 0 THEN MagLt(x, y)
    ELSE MagLt(y, x)

\* x < y
F64Lt(x, y) == Eager(<< x, y >>, LAMBDA p : Less(p[1], p[2]))

\* x <= y (false, as every comparison, when x or y is NaN)
F64Le(x, y) ==
    Eager(<< x, y >>, LAMBDA p : ~IsNaN(p[1]) /\ ~IsNaN(p[2]) /\ ~Less(p[2], p[1]))

\* n as f64, for an integer |n| < 2^31
F64FromInt(n) ==
    Round(IF n < 0 THEN 1 ELSE 0, << Abs(n) % Wide, Abs(n) \div Wide, 0, 0 >>, 0)

\* x * 2^k, for x and a result in the normal range
F64Ldexp(x, k) == IF IsZero(x) THEN x ELSE [x EXCEPT !.exp = @ + k]

\* an i64 outside of -2^31 + 1 .. 2^31 - 1: its sign and its magnitude as a
\* wide integer
BigI64(negative, magnitude) == [negative |-> negative, magnitude |-> magnitude]

\* i64::MAX and i64::MIN
I64Max == BigI64(FALSE, << Wide - 1, Wide - 1, 2^7 - 1, 0 >>)
I64Min == BigI64(TRUE, << 0, 0, 2^7, 0 >>)

\* x as i64, for x at hand: toward zero, saturating, 0 for NaN
Cast(x) ==
    IF IsNaN(x) \/ IsZero(x) THEN 0
    ELSE IF IsInf(x) \/ x.exp + BitLen(Significand(x)) > 63
    THEN (IF x.sign = 1 THEN I64Min ELSE I64Max)
    ELSE LET w == IF x.exp >= 0 THEN ShiftLeft(Significand(x), x.exp)
                  ELSE ShiftRight(Significand(x), -x.exp)
         IN  IF w[4] = 0 /\ w[3] = 0 /\ w[2] < 8
             THEN (IF x.sign = 1 THEN -1 ELSE 1) * (w[1] + w[2] * Wide)
             ELSE BigI64(x.sign = 1, w)

\* x as i64
AsI64(x) == Eager(x, LAMBDA v : Cast(v))

-----------------------------------------------------------------------------
(* metrics.rs: the training-load recurrence.                               *)

DailyTSS(date, tss) == [date |-> date, tss |-> tss]

\* (-1.0 / c as f64).exp(), for the two constants the program uses
ExpNegInv(c) ==
    CASE c = 42 -> F64(0, -53, 32764952, 217351653)   \* 0x1.f3f418cf485e5p-1
      [] c = 7  -> F64(0, -53, 29087595, 144812952)   \* 0x1.bbd76b8a1ab98p-1

\* 1.0 - (-1.0 / c as f64).exp(), for the same two constants
ImpactFactor == [c \in {7, 42} |-> F64Sub(F64FromInt(1), ExpNegInv(c))]

\* calc_training_load: yesterdays_tl * decay_factor + tss as f64 * impact_factor
calc_training_load(decay_const, impact_const, yesterdays_tl, daily_tss) ==
    LET tss           == daily_tss.tss
        decay_factor  == ExpNegInv(decay_const)
        impact_factor == ImpactFactor[impact_const]
    IN  F64Add(F64Mul(yesterdays_tl, decay_factor), F64Mul(F64FromInt(tss), impact_factor))

\* CTL::calculate with the impact constant of ATL
CTL_calculate_AcuteImpact(yesterdays_tl, daily_tss) ==
    calc_training_load(42, 7, yesterdays_tl, daily_tss)

\* CTL::calculate
CTL_calculate(yesterdays_tl, daily_tss) ==
    calc_training_load(42, 42, yesterdays_tl, daily_tss)

\* ATL::calculate
ATL_calculate(yesterdays_tl, daily_tss) ==
    calc_training_load(7, 7, yesterdays_tl, daily_tss)

\* TSB::calculate
TSB_calculate(ctl, atl) == F64Sub(ctl, atl)

-----------------------------------------------------------------------------
(* daily_stats.rs                                                          *)

DailyStats(date, tss, ctl, atl, tsb) ==
    [date |-> date, tss |-> tss, ctl |-> ctl, atl |-> atl, tsb |-> tsb]

\* DailyStats::calc_next
calc_next(yesterdays_stats, daily_tss) ==
    Eager(<< CTL_calculate(yesterdays_stats.ctl, daily_tss),
             ATL_calculate(yesterdays_stats.atl, daily_tss) >>,
          LAMBDA load :
              LET ctl == load[1]
                  atl == load[2]
                  tsb == TSB_calculate(ctl, atl)
              IN  DailyStats(daily_tss.date, daily_tss.tss, ctl, atl, tsb))

\* the literal 0.45 of calc_rolling (0x1.ccccccccccccdp-2)
KeepAt == F64(0, -54, 30198988, 214748365)

\* ScanKeeps without the guard on the index: real days are kept only while a
\* load is at or above the threshold
ScanKeeps_NoIndex(i, length, next_daily_stats) ==
    \/ F64Le(KeepAt, next_daily_stats.ctl)
    \/ F64Le(KeepAt, next_daily_stats.atl)
    \/ F64Le(KeepAt, next_daily_stats.tsb)

\* ScanKeeps without the convergence test: the scan ends after the first
\* extension day
ScanKeeps_NoExtension(i, length, next_daily_stats) == i < length + 1

\* ScanKeeps without the test of ATL
ScanKeeps_NoATL(i, length, next_daily_stats) ==
    \/ i < length + 1
    \/ F64Le(KeepAt, next_daily_stats.ctl)
    \/ F64Le(KeepAt, next_daily_stats.tsb)

\* ScanKeeps without any test: the scan never ends
ScanKeeps_Forever(i, length, next_daily_stats) == TRUE

\* ScanKeeps whose index guard covers the real days only
ScanKeeps_RealDaysOnly(i, length, next_daily_stats) ==
    \/ i < length
    \/ F64Le(KeepAt, next_daily_stats.ctl)
    \/ F64Le(KeepAt, next_daily_stats.atl)
    \/ F64Le(KeepAt, next_daily_stats.tsb)

\* the closure of the scan in calc_rolling: is the entry of (0-based) index i
\* kept (Some) or does the scan end (None)
ScanKeeps(i, length, next_daily_stats) ==
    \/ i < length + 1
    \/ F64Le(KeepAt, next_daily_stats.ctl)
    \/ F64Le(KeepAt, next_daily_stats.atl)
    \/ F64Le(KeepAt, next_daily_stats.tsb)

\* Chained whose ending days begin on the last day itself
Chained_FromLastDay(sorted_daily_tss, i) ==
    LET length   == Len(sorted_daily_tss)
        last_day == sorted_daily_tss[length].date
    IN  IF i < length THEN sorted_daily_tss[i + 1]
        ELSE DailyTSS(last_day + (i - length), 0)

\* sorted_daily_tss.into_iter().chain(ending_days): the element of 0-based index i
Chained(sorted_daily_tss, i) ==
    LET length   == Len(sorted_daily_tss)
        last_day == sorted_daily_tss[length].date
    IN  IF i < length THEN sorted_daily_tss[i + 1]
        ELSE DailyTSS(last_day + (i - length + 1), 0)

\* One call of the closure of the scan, for the element of 0-based index i:
\* the new state, the entry collected (if any) and whether the scan goes on.
ScanStep(sorted_daily_tss, i, yesterdays_stats) ==
    Eager(calc_next(yesterdays_stats, Chained(sorted_daily_tss, i)),
          LAMBDA next_daily_stats :
              LET keep == ScanKeeps(i, Len(sorted_daily_tss), next_daily_stats)
              IN  [state |-> next_daily_stats,
                   out   |-> IF keep THEN << next_daily_stats >> ELSE << >>,
                   goes  |-> keep])

\* .enumerate().scan(init, ..) over the n elements from index i, with state
\* yesterdays_stats.  The elements are visited strictly in order and none
\* after the closure returned None; the range is halved only to keep the
\* evaluation shallow.
RECURSIVE Scan(_, _, _, _)
Scan(sorted_daily_tss, i, yesterdays_stats, n) ==
    IF n = 1 THEN ScanStep(sorted_daily_tss, i, yesterdays_stats)
    ELSE LET h     == n \div 2
             left  == Scan(sorted_daily_tss, i, yesterdays_stats, h)
         IN  IF ~left.goes THEN left
             ELSE LET right == Scan(sorted_daily_tss, i + h, left.state, n - h)
                  IN  [state |-> right.state,
                       out   |-> left.out \o right.out,
                       goes  |-> right.goes]

\* a start state that is the zero state even when a checkpoint is supplied
RollingInit_NoCheckpoint(sorted_daily_tss, last_known_stats) ==
    DailyStats(sorted_daily_tss[1].date - 1, 0, F64Zero, F64Zero, F64Zero)

\* the start state of calc_rolling
RollingInit(sorted_daily_tss, last_known_stats) ==
    IF last_known_stats # None THEN last_known_stats[1]
    ELSE DailyStats(sorted_daily_tss[1].date - 1, 0, F64Zero, F64Zero, F64Zero)

\* .collect() of the scan from index i on: the elements are pulled, n at
\* first and twice as many each time after, until the closure returns None.
\* The iterator has no end of its own: with a load that never falls below
\* the threshold (an infinite one) there is no result, as in the program.
RECURSIVE Collect(_, _, _, _)
Collect(sorted_daily_tss, i, yesterdays_stats, n) ==
    Eager(Scan(sorted_daily_tss, i, yesterdays_stats, n),
          LAMBDA part :
              IF ~part.goes THEN part.out
              ELSE part.out \o Collect(sorted_daily_tss, i + n, part.state, 2 * n))

\* DailyStats::calc_rolling
calc_rolling(sorted_daily_tss, last_known_stats) ==
    IF sorted_daily_tss = << >> THEN << >>
    ELSE Collect(sorted_daily_tss, 0,
                 RollingInit(sorted_daily_tss, last_known_stats),
                 Len(sorted_daily_tss) + 1)

\* A BTreeMap<NaiveDate, TSS> is a function from its keys to their values.
EmptyMap == [d \in {} |-> 0]

\* init_map that takes the distance to the first entry without its sign
init_map_AbsDays(unsorted, last_known_stats) ==
    IF last_known_stats = None \/ unsorted = << >> THEN EmptyMap
    ELSE LET stats == last_known_stats[1]
             days  == Abs(unsorted[1].date - stats.date)
         IN  [d \in {stats.date + k : k \in 1 .. (days - 1)} |-> 0]

\* init_map of from_unsorted: zero days strictly between the checkpoint and
\* the first entry of the unsorted list
init_map(unsorted, last_known_stats) ==
    IF last_known_stats = None \/ unsorted = << >> THEN EmptyMap
    ELSE LET stats == last_known_stats[1]
             days  == unsorted[1].date - stats.date
         IN  [d \in {stats.date + k : k \in 1 .. (days - 1)} |-> 0]

\* EntryAdd that overwrites the day's TSS instead of adding to it
EntryAdd_Overwrite(acc, date, tss) ==
    [d \in DOMAIN acc \cup {date} |-> IF d = date THEN tss ELSE acc[d]]

\* acc.entry(date).and_modify(|acc_tss| *acc_tss += tss).or_insert(tss)
EntryAdd(acc, date, tss) ==
    IF date \in DOMAIN acc
    THEN [acc EXCEPT ![date] = @ + tss]
    ELSE [d \in DOMAIN acc \cup {date} |-> IF d = date THEN tss ELSE acc[d]]

\* the accumulation fold over the unsorted list, from (1-based) index i
RECURSIVE Accumulate(_, _, _)
Accumulate(unsorted, i, acc) ==
    IF i > Len(unsorted) THEN acc
    ELSE Accumulate(unsorted, i + 1,
                    EntryAdd(acc, unsorted[i].date, unsorted[i].tss))

\* BTreeMap::iter(): the entries in ascending key order
RECURSIVE MapIter(_)
MapIter(m) ==
    IF DOMAIN m = {} THEN << >>
    ELSE LET lo == CHOOSE d \in DOMAIN m : \A e \in DOMAIN m : d <= e
         IN  << DailyTSS(lo, m[lo]) >>
             \o MapIter([d \in DOMAIN m \ {lo} |-> m[d]])

\* ZeroDays that fills no gap
ZeroDays_NoFill(last_date, diff) == << >>

\* (1..diff).for_each(|days| acc.push(DailyTSS(last_date + days, TSS(0))))
ZeroDays(last_date, diff) ==
    [k \in 1 .. (IF diff > 1 THEN diff - 1 ELSE 0) |-> DailyTSS(last_date + k, 0)]

\* the gap-filling fold over the sorted entries, from (1-based) index i
RECURSIVE FillGaps(_, _, _)
FillGaps(entries, i, acc) ==
    IF i > Len(entries) THEN acc
    ELSE LET daily_tss == entries[i]
         IN  IF acc = << >> THEN FillGaps(entries, i + 1, << daily_tss >>)
             ELSE LET last_date == acc[Len(acc)].date
                      diff      == daily_tss.date - last_date
                  IN  FillGaps(entries, i + 1,
                               Append(acc \o ZeroDays(last_date, diff), daily_tss))

\* SkipsDay with < for <=: the checkpoint's own day is not skipped
SkipsDay_Strict(daily_tss, last_known_stats) ==
    IF last_known_stats # None THEN daily_tss.date < last_known_stats[1].date
    ELSE FALSE

\* the predicate of skip_while
SkipsDay(daily_tss, last_known_stats) ==
    IF last_known_stats # None THEN daily_tss.date <= last_known_stats[1].date
    ELSE FALSE

\* .skip_while(..)
RECURSIVE SkipWhile(_, _)
SkipWhile(s, last_known_stats) ==
    IF s = << >> THEN s
    ELSE IF SkipsDay(s[1], last_known_stats) THEN SkipWhile(Tail(s), last_known_stats)
    ELSE s

\* SortedDailyTSS::from_unsorted
from_unsorted(unsorted, last_known_stats) ==
    SkipWhile(
        FillGaps(MapIter(Accumulate(unsorted, 1, init_map(unsorted, last_known_stats))),
                 1, << >>),
        last_known_stats)

-----------------------------------------------------------------------------
(* The daily pipeline: from_unsorted, then calc_rolling (main.rs 276-277    *)
(* and the property tests of daily_stats.rs).                               *)

\* sequences over S of length at most n
SeqUpTo(S, n) == UNION {[1 .. k -> S] : k \in 0 .. n}

RawEntries == {DailyTSS(d, t) : d \in 0 .. MaxDay, t \in TSSVals}
RawLists == SeqUpTo(RawEntries, MaxRaw)

\* << ctl, atl, tsb >> of a last known DailyStats, in quarters (1.0, 1.5 and
\* 1.25); the stored tsb is deliberately not ctl - atl (cf. arb_daily_stats,
\* which draws the three independently)
KnownLoads == {<< 4, 6, 5 >>}

Checkpoints ==
    {None} \cup
    {Some(DailyStats(d, 120, F64Ldexp(F64FromInt(l[1]), -2), F64Ldexp(F64FromInt(l[2]), -2),
                     F64Ldexp(F64FromInt(l[3]), -2))) :
        d \in 0 .. MaxDay, l \in KnownLoads}

\* the variables of a component are idle in the specifications of the others
IdleDaily ==
    /\ raw = << >>
    /\ cpN = None
    /\ sorted = << >>
    /\ cpR = None
    /\ daily_stats = << >>

IdleTss ==
    /\ arg_ftp = 0
    /\ arg_duration = 0
    /\ arg_np = 0
    /\ res_tss = None
    /\ res_tss_metrics = None

IdleNp ==
    /\ arg_power = << >>
    /\ res_np = None

IdleCall ==
    /\ input = None
    /\ output = None

InitDaily ==
    /\ pc = "unsorted"
    /\ raw \in RawLists
    /\ cpN = None
    /\ sorted = << >>
    /\ cpR = None
    /\ daily_stats = << >>
    /\ IdleTss
    /\ IdleNp
    /\ IdleCall

\* SortedDailyTSS::from_unsorted(&raw, last_known_stats)
FromUnsorted(last_known_stats) ==
    /\ pc = "unsorted"
    /\ cpN' = last_known_stats
    /\ sorted' = from_unsorted(raw, last_known_stats)
    /\ pc' = "sorted"
    /\ UNCHANGED << raw, cpR, daily_stats, tssVars, npVars, callVars >>

\* DailyStats::calc_rolling(sorted, last_known_stats): with the checkpoint the
\* list was normalised with (daily_stats_is_extended, main), or with any
\* checkpoint for a list normalised without one
\* (daily_stats_is_at_least_as_long_as_input)
CalcRolling(last_known_stats) ==
    /\ pc = "sorted"
    /\ \/ last_known_stats = cpN
       \/ cpN = None
    /\ cpR' = last_known_stats
    /\ daily_stats' = calc_rolling(sorted, last_known_stats)
    /\ pc' = "rolled"
    /\ UNCHANGED << raw, cpN, sorted, tssVars, npVars, callVars >>

NextDaily ==
    \/ \E cp \in Checkpoints : FromUnsorted(cp)
    \/ \E cp \in Checkpoints : CalcRolling(cp)

SpecDaily == InitDaily /\ [][NextDaily]_vars

-----------------------------------------------------------------------------
(* Claims about the daily pipeline.                                        *)

Normalized == pc \in {"sorted", "rolled"}
Rolled == pc = "rolled"

\* the sum of the TSS of the raw entries dated d
RECURSIVE RawSumFrom(_, _)
RawSumFrom(i, d) ==
    IF i > Len(raw) THEN 0
    ELSE (IF raw[i].date = d THEN raw[i].tss ELSE 0) + RawSumFrom(i + 1, d)

RawDates == {raw[i].date : i \in 1 .. Len(raw)}
SortedDates == {sorted[i].date : i \in 1 .. Len(sorted)}
LastStats == daily_stats[Len(daily_stats)]

\* |x|
F64Abs(x) == [x EXCEPT !.sign = 0]
\* the f64 literals 0.5, 0.52, 0.4609 and 0.5192
Lit_0_5 == F64Ldexp(F64FromInt(1), -1)
Lit_0_52 == F64(0, -53, 17448304, 171798692)
Lit_0_4609 == F64(0, -54, 30930475, 112098646)
Lit_0_5192 == F64(0, -53, 17421461, 25340307)

\* C1: the series returned by from_unsorted is contiguous and ascending: each
\* entry is dated exactly one day after its predecessor, so every date from
\* the first to the last appears exactly once.
C1_Contiguous ==
    Normalized =>
        /\ \A i \in 1 .. Len(sorted) - 1 : sorted[i + 1].date = sorted[i].date + 1
        /\ Len(sorted) > 0 =>
               SortedDates = sorted[1].date .. sorted[Len(sorted)].date
        /\ Cardinality(SortedDates) = Len(sorted)

\* C1 witness: a raw list given out of order, with a gap, has been normalised.
C1_Witness ==
    /\ pc = "sorted"
    /\ Len(raw) = 2
    /\ raw[1].date > raw[2].date + 1
    /\ Len(sorted) = raw[1].date - raw[2].date + 1

\* C2: with a checkpoint, every entry returned by from_unsorted is dated after
\* the checkpoint and the first entry is dated the day after it, whichever raw
\* entry is first in the unsorted list.
C2_StartsAfterCheckpoint ==
    (Normalized /\ cpN # None) =>
        /\ \A i \in 1 .. Len(sorted) : sorted[i].date > cpN[1].date
        /\ Len(sorted) > 0 => sorted[1].date = cpN[1].date + 1

\* C2 witness: the first raw entry is dated at or before the checkpoint, a
\* later one after it, and the result is not empty.
C2_Witness ==
    /\ pc = "sorted"
    /\ cpN # None
    /\ Len(raw) = 2
    /\ raw[1].date <= cpN[1].date
    /\ raw[2].date > cpN[1].date + 1
    /\ Len(sorted) > 0

\* C3: in the series returned by from_unsorted each date carries the sum of
\* the TSS of the raw entries with that date, which is 0 for a date without a
\* raw entry.
C3_DailySum ==
    Normalized =>
        \A i \in 1 .. Len(sorted) : sorted[i].tss = RawSumFrom(1, sorted[i].date)

\* C3 witness: two raw entries share a date that is in the result, and the
\* result has a day without raw entry.
C3_Witness ==
    /\ pc = "sorted"
    /\ Len(raw) = 2
    /\ raw[1].date = raw[2].date
    /\ \E i \in 1 .. Len(sorted) :
           sorted[i].date = raw[1].date /\ sorted[i].tss = raw[1].tss + raw[2].tss
    /\ \E i \in 1 .. Len(sorted) : sorted[i].date \notin RawDates /\ sorted[i].tss = 0

\* C4: calc_rolling never drops a real day: the output is at least as long as
\* the normalized series and its i-th entry carries the date and TSS of the
\* i-th normalized day, converged or not.
C4_KeepsRealDays ==
    Rolled =>
        /\ Len(daily_stats) >= Len(sorted)
        /\ \A i \in 1 .. Len(sorted) :
               /\ daily_stats[i].date = sorted[i].date
               /\ daily_stats[i].tss = sorted[i].tss

\* C4 witness: a real day that is not the last one has CTL, ATL and TSB below
\* the threshold, and is in the output.
C4_Witness ==
    /\ Rolled
    /\ Len(sorted) >= 2
    /\ Len(daily_stats) >= Len(sorted)
    /\ F64Lt(daily_stats[1].ctl, KeepAt)
    /\ F64Lt(daily_stats[1].atl, KeepAt)
    /\ F64Lt(daily_stats[1].tsb, KeepAt)

\* C5 as stated: from the zero state, the last entry of calc_rolling has
\* |CTL|, |ATL| and |TSB| at most the threshold 0.45.
C5_LastWithinThreshold ==
    (Rolled /\ cpR = None /\ Len(sorted) > 0) =>
        /\ F64Le(F64Abs(LastStats.ctl), KeepAt)
        /\ F64Le(F64Abs(LastStats.atl), KeepAt)
        /\ F64Le(F64Abs(LastStats.tsb), KeepAt)

\* C5 amended: from the zero state, the last entry of calc_rolling is the day
\* before the first one on which all three are below 0.45, so that it has
\* |CTL| < 0.45 e^(1/42) (0.4609) and |ATL|, |TSB| < 0.45 e^(1/7) (0.5192).
C5_LastWithinOneDecay ==
    (Rolled /\ cpR = None /\ Len(sorted) > 0) =>
        /\ F64Lt(F64Abs(LastStats.ctl), Lit_0_4609)
        /\ F64Lt(F64Abs(LastStats.atl), Lit_0_5192)
        /\ F64Lt(F64Abs(LastStats.tsb), Lit_0_5192)

\* C5 witness: from the zero state the extension ran for more than two weeks
\* and ended with CTL above 0.45.
C5_Witness ==
    /\ Rolled
    /\ cpR = None
    /\ Len(sorted) > 0
    /\ Len(daily_stats) > Len(sorted) + 14
    /\ F64Lt(KeepAt, LastStats.ctl)

\* C6 as stated: in the pipeline with one checkpoint, the last entry has CTL,
\* ATL and TSB at most 0.5.
C6_LastAtMostHalf ==
    (Rolled /\ cpR = cpN /\ Len(sorted) > 0) =>
        /\ F64Le(LastStats.ctl, Lit_0_5)
        /\ F64Le(LastStats.atl, Lit_0_5)
        /\ F64Le(LastStats.tsb, Lit_0_5)

\* C6 amended: in the pipeline with one checkpoint, the last entry has CTL and
\* TSB at most 0.5, and ATL at most 0.52.
C6_LastAtMostHalfButATL ==
    (Rolled /\ cpR = cpN /\ Len(sorted) > 0) =>
        /\ F64Le(LastStats.ctl, Lit_0_5)
        /\ F64Le(LastStats.atl, Lit_0_52)
        /\ F64Le(LastStats.tsb, Lit_0_5)

\* C6 witness: the pipeline ran with one checkpoint and ended, after the
\* extension, on an entry whose ATL is above 0.5.
C6_Witness ==
    /\ Rolled
    /\ cpR = cpN
    /\ Len(daily_stats) > Len(sorted)
    /\ F64Lt(Lit_0_5, LastStats.atl)

-----------------------------------------------------------------------------
(* Integer division of Rust.                                               *)

\* i64 / i64 of Rust: the quotient truncated toward zero
TruncDiv(a, b) ==
    IF (a < 0) = (b < 0) THEN Abs(a) \div Abs(b) ELSE -(Abs(a) \div Abs(b))

-----------------------------------------------------------------------------
(* Power-based Training Stress Score.                                      *)

\* seconds of an hour, the literal 3_600.0 of calc_tss
SecondsPerHour == 3600
\* the literal 100.0 of calc_tss
Percent == 100

\* activity_analysis.rs: calc_intensity_factor
calc_intensity_factor(ftp, normalized_power) ==
    F64Div(F64FromInt(normalized_power), F64FromInt(ftp))

\* calc_tss that does not scale to 100 per hour at threshold
calc_tss_NoPercent(ftp, duration, normalized_power) ==
    LET intensity_factor == calc_intensity_factor(ftp, normalized_power)
    IN  AsI64(F64Div(F64Mul(F64Mul(F64FromInt(duration), F64FromInt(normalized_power)),
                        intensity_factor),
                   F64Mul(F64FromInt(ftp), F64FromInt(SecondsPerHour))))

\* activity_analysis.rs: calc_tss (duration in seconds)
calc_tss(ftp, duration, normalized_power) ==
    LET intensity_factor == calc_intensity_factor(ftp, normalized_power)
    IN  AsI64(F64Mul(F64Div(F64Mul(F64Mul(F64FromInt(duration), F64FromInt(normalized_power)),
                             intensity_factor),
                        F64Mul(F64FromInt(ftp), F64FromInt(SecondsPerHour))),
                   F64FromInt(Percent)))

\* metrics.rs: IF::calculate
IF_calculate(ftp, normalized_power) ==
    F64Div(F64FromInt(normalized_power), F64FromInt(ftp))

\* metrics.rs: TSS::calculate (duration in seconds)
TSS_calculate(ftp, duration, normalized_power) ==
    LET intensity_factor == IF_calculate(ftp, normalized_power)
    IN  AsI64(F64Mul(F64Div(F64Mul(F64Mul(F64FromInt(duration), F64FromInt(normalized_power)),
                             intensity_factor),
                        F64Mul(F64FromInt(ftp), F64FromInt(SecondsPerHour))),
                   F64FromInt(Percent)))

\* threshold powers are 1 .. MaxFTP
MaxFTP == 300

\* durations in seconds: none, a minute, half an hour, one hour, sixty-nine
\* minutes, ninety minutes, four hours
Durations == {0, 60, 1800, 3600, 4140, 5400, 14400}

\* Normalized Power for a threshold power f: none, half of it, all of it, and
\* the 130 W of four_hour_effort_tss
PowersFor(f) == {0, f \div 2, f, 130}

InitTss ==
    /\ pc = "tss"
    /\ arg_ftp \in 1 .. MaxFTP
    /\ arg_duration \in Durations
    /\ arg_np \in PowersFor(arg_ftp)
    /\ res_tss = None
    /\ res_tss_metrics = None
    /\ IdleDaily
    /\ IdleNp
    /\ IdleCall

\* calc_tss(&ftp, &duration, &normalized_power)
CalcTss ==
    /\ pc = "tss"
    /\ res_tss = None
    /\ res_tss' = Some(calc_tss(arg_ftp, arg_duration, arg_np))
    /\ UNCHANGED << pc, arg_ftp, arg_duration, arg_np, res_tss_metrics,
                    dailyVars, npVars, callVars >>

\* TSS::calculate(&ftp, &duration, &normalized_power)
TssCalculate ==
    /\ pc = "tss"
    /\ res_tss_metrics = None
    /\ res_tss_metrics' = Some(TSS_calculate(arg_ftp, arg_duration, arg_np))
    /\ UNCHANGED << pc, arg_ftp, arg_duration, arg_np, res_tss,
                    dailyVars, npVars, callVars >>

NextTss == CalcTss \/ TssCalculate

SpecTSS == InitTss /\ [][NextTss]_vars

-----------------------------------------------------------------------------
(* Claims about the power-based TSS.                                       *)

\* C7: for every FTP > 0, calc_tss and TSS::calculate with NP equal to FTP and
\* a duration of one hour return 100.
C7_HourAtThresholdIs100 ==
    (arg_np = arg_ftp /\ arg_duration = 3600) =>
        /\ res_tss # None => res_tss = Some(100)
        /\ res_tss_metrics # None => res_tss_metrics = Some(100)

\* C7 witness: both functions have scored an hour at a threshold of 1 W.
C7_Witness ==
    /\ arg_ftp = 1
    /\ arg_np = 1
    /\ arg_duration = 3600
    /\ res_tss = Some(100)
    /\ res_tss_metrics = Some(100)

\* C8: calc_tss is d * NP * (NP / FTP) / (FTP * 3600) * 100 truncated, that is
\* d * NP^2 / (36 * FTP^2) truncated, linear in the duration at a constant
\* intensity: NP = FTP for 90 minutes gives 150, and FTP = 260 with NP = 130
\* for 4 hours gives 100.
C8_Formula ==
    res_tss # None =>
        /\ res_tss[1] = (arg_duration * arg_np * arg_np) \div (36 * arg_ftp * arg_ftp)
        /\ (arg_np = arg_ftp /\ arg_duration = 5400) => res_tss[1] = 150
        /\ (arg_ftp = 260 /\ arg_np = 130 /\ arg_duration = 14400) => res_tss[1] = 100

-----------------------------------------------------------------------------
(* Normalized Power.                                                       *)

\* elems.iter().sum::<i64>()
RECURSIVE SumSeq(_)
SumSeq(elems) == IF elems = << >> THEN 0 ELSE elems[1] + SumSeq(Tail(elems))

\* measurements.rs: Average for i64
Average_i64(elems) ==
    IF elems # << >> THEN Some(TruncDiv(SumSeq(elems), Len(elems))) ELSE None

\* Average for Power that rounds the mean up
Average_Power_RoundUp(elems) ==
    IF elems # << >>
    THEN Some((SumSeq(elems) + Len(elems) - 1) \div Len(elems))
    ELSE None

\* measurements.rs: Average for Power (a Power is its i64)
Average_Power(elems) ==
    IF elems # << >> THEN Some(TruncDiv(SumSeq(elems), Len(elems))) ELSE None

\* windows that do not overlap: chunks of size samples
Windows_Chunks(data, size) ==
    [i \in 1 .. (Len(data) \div size) |->
        SubSeq(data, (i - 1) * size + 1, i * size)]

\* data.windows(size): every contiguous window, in order
Windows(data, size) ==
    [i \in 1 .. (IF Len(data) >= size THEN Len(data) - size + 1 ELSE 0) |->
        SubSeq(data, i, i + size - 1)]

\* activity_analysis.rs: rolling_averages, for Power
rolling_averages(data, size) ==
    LET windows == Windows(data, size)
    IN  [i \in 1 .. Len(windows) |-> Average_Power(windows[i])[1]]

\* the largest r in lo .. hi with r * r <= a, by bisection; r * r <= a is
\* decided as r <= a / r, which stays within 32 bits
RECURSIVE RootIn(_, _, _)
RootIn(a, lo, hi) ==
    IF lo >= hi THEN lo
    ELSE LET mid == (lo + hi + 1) \div 2
         IN  IF mid <= a \div mid THEN RootIn(a, mid, hi)
             ELSE RootIn(a, lo, mid - 1)

\* the square root of a >= 0, truncated
SqrtFloor(a) == RootIn(a, 0, a)

\* powf(0.25) that takes the square root
PowfQuarter_Sqrt(avg) ==
    IF avg <= 0 THEN 0 ELSE SqrtFloor(avg)

\* (avg as f64).powf(0.25) as i64: the 4th root truncated, which is the
\* truncated root of the truncated root; NaN, the root of a negative
\* number, is 0 as i64.
PowfQuarter(avg) ==
    IF avg <= 0 THEN 0 ELSE SqrtFloor(SqrtFloor(avg))

\* the literal 30 of the length test of calc_normalized_power
NpMinLen == 30
\* the literal 30 of the window of calc_normalized_power
NpWindow == 30

\* activity_analysis.rs: calc_normalized_power
calc_normalized_power(power_data) ==
    IF Len(power_data) < NpMinLen THEN Average_Power(power_data)
    ELSE LET ra  == rolling_averages(power_data, NpWindow)
             avg == Average_i64([i \in 1 .. Len(ra) |-> ra[i] ^ 4])
         IN  IF avg = None THEN None
             ELSE Some(PowfQuarter(avg[1]))

\* power streams have at most MaxLen samples
MaxLen == 32
\* samples are 0 .. MaxPower watts ((MaxLen - 29) * MaxPower^4 < 2^31)
MaxPower == 150
\* a stream is a run of one value followed by at most MaxTail samples of another
MaxTail == 2

Run(v, k) == [i \in 1 .. k |-> v]

\* the values of the tail: none, one watt, or the largest
TailVals == {0, 1, MaxPower}

Streams ==
    {Run(a, i) \o Run(b, j) :
        a \in 0 .. MaxPower, b \in TailVals, i \in 0 .. MaxLen, j \in 0 .. MaxTail}

InitNp ==
    /\ pc = "np"
    /\ arg_power \in {p \in Streams : Len(p) <= MaxLen}
    /\ res_np = None
    /\ IdleDaily
    /\ IdleTss
    /\ IdleCall

\* calc_normalized_power(&power_data)
CalcNormalizedPower ==
    /\ pc = "np"
    /\ res_np = None
    /\ res_np' = Some(calc_normalized_power(arg_power))
    /\ UNCHANGED << pc, arg_power, dailyVars, tssVars, callVars >>

NextNp == CalcNormalizedPower

SpecNP == InitNp /\ [][NextNp]_vars

-----------------------------------------------------------------------------
(* Claims about Normalized Power.                                          *)

IsConstant(p) == \A i \in 1 .. Len(p) : p[i] = p[1]

\* C9: calc_normalized_power of n >= 30 samples all equal to c >= 0 is c.
C9_ConstantStream ==
    (res_np # None /\ Len(arg_power) >= 30 /\ IsConstant(arg_power)) =>
        res_np[1] = Some(arg_power[1])

\* C9 witness: a constant stream of more than 30 samples at the largest power
\* has been normalized to that power.
C9_Witness ==
    /\ res_np = Some(Some(MaxPower))
    /\ Len(arg_power) > 30
    /\ IsConstant(arg_power)

\* C10: for fewer than 30 samples calc_normalized_power is the sum divided by
\* the count, truncated; it is None exactly for the empty stream.
C10_ShortStreamMean ==
    (res_np # None /\ Len(arg_power) < 30) =>
        /\ res_np[1] = None <=> arg_power = << >>
        /\ arg_power # << >> =>
               /\ res_np[1] # None
               /\ res_np[1][1] * Len(arg_power) <= SumSeq(arg_power)
               /\ (res_np[1][1] + 1) * Len(arg_power) > SumSeq(arg_power)

\* C10 witness: a stream of 29 samples whose mean is not an integer has been
\* normalized to the mean without its fraction.
C10_Witness ==
    /\ res_np # None
    /\ Len(arg_power) = 29
    /\ SumSeq(arg_power) % Len(arg_power) # 0
    /\ res_np[1] = Some(SumSeq(arg_power) \div Len(arg_power))
    /\ res_np[1][1] > 0

-----------------------------------------------------------------------------
(* peak.rs: the sliding-window peak finder.  A call either returns or      *)
(* panics; a measurement is << value, timestamp >>.                        *)

Returned(v) == [panicked |-> FALSE, value |-> v]
Panicked == [panicked |-> TRUE, value |-> None]

Peak(value, timestamps, duration) ==
    [value |-> value, timestamps |-> timestamps, duration |-> duration]

\* peak.rs: get_peak, for Power
get_peak(measurements, duration) ==
    LET avg == Average_Power([i \in 1 .. Len(measurements) |-> measurements[i][1]])
    IN  IF avg = None THEN None
        ELSE LET start_time == measurements[1][2]
                 end_time   == measurements[Len(measurements)][2]
             IN  Some(Peak(avg[1], << start_time, end_time >>, duration))

\* .filter_map(identity): the contents of the Some elements, in order
RECURSIVE FilterMapIdentity(_)
FilterMapIdentity(options) ==
    IF options = << >> THEN << >>
    ELSE options[1] \o FilterMapIdentity(Tail(options))

\* Iterator::min in place of Iterator::max
RECURSIVE IterMax_Min(_)
IterMax_Min(peaks) ==
    IF peaks = << >> THEN None
    ELSE LET rest == IterMax_Min(Tail(peaks))
         IN  IF rest = None \/ peaks[1].value < rest[1].value
             THEN Some(peaks[1]) ELSE rest

\* Iterator::max that returns the first of several equal maxima
RECURSIVE IterMax_First(_)
IterMax_First(peaks) ==
    IF peaks = << >> THEN None
    ELSE LET rest == IterMax_First(Tail(peaks))
         IN  IF rest = None \/ peaks[1].value >= rest[1].value
             THEN Some(peaks[1]) ELSE rest

\* Iterator::max over Peak's Ord (by value): of several equal maxima the
\* last one is returned
RECURSIVE IterMax(_)
IterMax(peaks) ==
    IF peaks = << >> THEN None
    ELSE LET rest == IterMax(Tail(peaks))
         IN  IF rest = None \/ peaks[1].value > rest[1].value
             THEN Some(peaks[1]) ELSE rest

\* measurements.windows(duration.num_seconds() as usize): a negative number
\* of seconds is a size beyond every slice as usize, so there is no window;
\* size 0 is handled by the caller (slice::windows panics on it)
PeakWindows(measurements, duration) ==
    IF duration < 0 THEN << >> ELSE Windows(measurements, duration)

\* peak.rs: Peak::from_measurement_records, for Power
from_measurement_records(measurements, duration) ==
    IF duration = 0 THEN Panicked
    ELSE LET windows == PeakWindows(measurements, duration)
         IN  Returned(IterMax(FilterMapIdentity(
                 [i \in 1 .. Len(windows) |-> get_peak(windows[i], duration)])))

\* activity_analysis.rs: PeakPerformances::get_one, the HashMap as a function
\* from the durations that have a peak
get_one(data_with_timestamps, peak_durations) ==
    IF \E duration \in peak_durations :
           from_measurement_records(data_with_timestamps, duration).panicked
    THEN Panicked
    ELSE LET found == {duration \in peak_durations :
                 from_measurement_records(data_with_timestamps, duration).value # None}
         IN  Returned([duration \in found |->
                 from_measurement_records(data_with_timestamps, duration).value[1]])

\* the sum of no f64, from which the derived Sum of f64 starts: 0.0, and
\* -0.0 with the standard library since Rust 1.83
EmptySums == {F64Zero, F64(1, 0, 0, 0)}

\* the f64 sum of elems[i], elems[i + 1], ... in their order, from acc
RECURSIVE SumF64(_, _, _)
SumF64(elems, i, acc) ==
    IF i > Len(elems) THEN acc
    ELSE Eager(F64Add(acc, elems[i]), LAMBDA sum : SumF64(elems, i + 1, sum))

\* the average of speeds without the division by their number
Average_Speed_Sum(elems, empty_sum) ==
    IF elems # << >> THEN Some(SumF64(elems, 1, empty_sum)) ELSE None

\* measurements.rs: Average for Speed, with the sum of no f64 of the build
Average_Speed(elems, empty_sum) ==
    IF elems # << >>
    THEN Some(F64Div(SumF64(elems, 1, empty_sum), F64FromInt(Len(elems))))
    ELSE None

\* measurements.rs: Ord for Speed, self.partial_cmp(other).unwrap(): two
\* speeds one of which is NaN have no ordering and the unwrap panics
Speed_cmp(self, other) ==
    IF IsNaN(self) \/ IsNaN(other) THEN Panicked
    ELSE Returned(IF F64Lt(self, other) THEN "Less"
                  ELSE IF F64Lt(other, self) THEN "Greater" ELSE "Equal")

\* peak.rs: get_peak, for Speed
get_peak_Speed(measurements, duration, empty_sum) ==
    LET avg == Average_Speed([i \in 1 .. Len(measurements) |-> measurements[i][1]],
                             empty_sum)
    IN  IF avg = None THEN None
        ELSE LET start_time == measurements[1][2]
                 end_time   == measurements[Len(measurements)][2]
             IN  Some(Peak(avg[1], << start_time, end_time >>, duration))

\* Iterator::max over Peak's Ord, for Speed: the reduce of max_by from the
\* i-th peak on, x being the greatest so far; compare(&x, &y) is Ord::cmp and
\* x is kept only when it is Greater
RECURSIVE Reduce_Speed(_, _, _)
Reduce_Speed(peaks, i, x) ==
    IF i > Len(peaks) THEN Returned(Some(x))
    ELSE LET y        == peaks[i]
             ordering == Speed_cmp(x.value, y.value)
         IN  IF ordering.panicked THEN Panicked
             ELSE Reduce_Speed(peaks, i + 1,
                               IF ordering.value = "Greater" THEN x ELSE y)

\* Iterator::max over Peak's Ord, for Speed: no comparison is made on fewer
\* than two peaks
IterMax_Speed(peaks) ==
    IF peaks = << >> THEN Returned(None) ELSE Reduce_Speed(peaks, 2, peaks[1])

\* peak.rs: Peak::from_measurement_records, for Speed
from_measurement_records_Speed(measurements, duration, empty_sum) ==
    IF duration = 0 THEN Panicked
    ELSE LET windows == PeakWindows(measurements, duration)
         IN  IterMax_Speed(FilterMapIdentity(
                 [i \in 1 .. Len(windows) |->
                     get_peak_Speed(windows[i], duration, empty_sum)]))

\* activity_analysis.rs: PeakPerformances::get_one, for Speed
get_one_Speed(data_with_timestamps, peak_durations, empty_sum) ==
    LET peaks == [duration \in peak_durations |->
                     from_measurement_records_Speed(data_with_timestamps,
                                                    duration, empty_sum)]
    IN  Eager(peaks, LAMBDA p :
            IF \E duration \in peak_durations : p[duration].panicked
            THEN Panicked
            ELSE LET found == {duration \in peak_durations :
                                  p[duration].value # None}
                 IN  Returned([duration \in found |-> p[duration].value[1]]))

\* measurement series have at most MaxPeakLen samples
MaxPeakLen == 4
\* measured values are 0 .. MaxPeakVal
MaxPeakVal == 2
\* target durations are -1 .. MaxPeakDur seconds
MaxPeakDur == 4

\* samples at 1 Hz: the i-th sample is stamped i
Stamped(values) == [i \in 1 .. Len(values) |-> << values[i], i >>]

PeakSeries == {Stamped(v) : v \in SeqUpTo(0 .. MaxPeakVal, MaxPeakLen)}

\* f64::NAN
F64QuietNaN == F64(0, InfExp, 2^23, 0)

\* speeds in m/s: 0.0, 0.1 and 0.5, and a NaN sample
SpeedValues ==
    {F64Zero, F64(0, -56, 26843545, 161061274), F64(0, -53, 16777216, 0),
     F64QuietNaN}

\* speed series have fewer than MaxPeakLen samples
SpeedSeries == {Stamped(v) : v \in SeqUpTo(SpeedValues, MaxPeakLen - 1)}

\* HashSet<Duration> of at most two durations, a Duration being any i64
\* number of seconds
DurationSets == {S \in SUBSET (-1 .. MaxPeakDur) : Cardinality(S) <= 2}

InitPeak ==
    /\ pc = "peak"
    /\ \/ input \in {Some([metric |-> "Power", measurements |-> m,
                           peak_durations |-> S]) :
                        m \in PeakSeries, S \in DurationSets}
       \/ input \in {Some([metric |-> "Speed", measurements |-> m,
                           peak_durations |-> S]) :
                        m \in SpeedSeries, S \in DurationSets}
    /\ output = None
    /\ IdleDaily
    /\ IdleTss
    /\ IdleNp

\* Peak::<Power>::from_measurement_records(&measurements, duration)
FromMeasurementRecords(duration) ==
    /\ pc = "peak"
    /\ output = None
    /\ input[1].metric = "Power"
    /\ duration \in input[1].peak_durations
    /\ output' = Some([fn |-> "from_measurement_records",
                       duration |-> duration,
                       ret |-> from_measurement_records(input[1].measurements, duration)])
    /\ UNCHANGED << pc, input, dailyVars, tssVars, npVars >>

\* PeakPerformances::get_one::<Power>(&data_with_timestamps, &peak_durations)
GetOne ==
    /\ pc = "peak"
    /\ output = None
    /\ input[1].metric = "Power"
    /\ output' = Some([fn |-> "get_one",
                       duration |-> 0,
                       ret |-> get_one(input[1].measurements, input[1].peak_durations)])
    /\ UNCHANGED << pc, input, dailyVars, tssVars, npVars >>

\* Peak::<Speed>::from_measurement_records(&measurements, duration)
FromMeasurementRecordsSpeed(duration) ==
    /\ pc = "peak"
    /\ output = None
    /\ input[1].metric = "Speed"
    /\ duration \in input[1].peak_durations
    /\ \E empty_sum \in EmptySums :
           output' = Some([fn |-> "from_measurement_records_Speed",
                           duration |-> duration,
                           ret |-> from_measurement_records_Speed(
                                       input[1].measurements, duration,
                                       empty_sum)])
    /\ UNCHANGED << pc, input, dailyVars, tssVars, npVars >>

\* PeakPerformances::get_one::<Speed>(&data_with_timestamps, &peak_durations)
GetOneSpeed ==
    /\ pc = "peak"
    /\ output = None
    /\ input[1].metric = "Speed"
    /\ \E empty_sum \in EmptySums :
           output' = Some([fn |-> "get_one_Speed",
                           duration |-> 0,
                           ret |-> get_one_Speed(input[1].measurements,
                                                 input[1].peak_durations,
                                                 empty_sum)])
    /\ UNCHANGED << pc, input, dailyVars, tssVars, npVars >>

NextPeak ==
    \/ \E duration \in -1 .. MaxPeakDur : FromMeasurementRecords(duration)
    \/ GetOne
    \/ \E duration \in -1 .. MaxPeakDur : FromMeasurementRecordsSpeed(duration)
    \/ GetOneSpeed

SpecPeak == InitPeak /\ [][NextPeak]_vars

-----------------------------------------------------------------------------
(* Claims about the peak finder.                                           *)

\* the average of the n samples from the i-th on
WindowAvg(m, i, n) == SumSeq([k \in 1 .. n |-> m[i + k - 1][1]]) \div n

PeakCalled == output # None /\ output[1].fn = "from_measurement_records"

\* C11: for a duration of n >= 1 seconds Peak::from_measurement_records returns
\* the maximum over all windows of n contiguous samples of the window's
\* average, and None if and only if there are fewer than n samples.
C11_PeakIsMaxWindowAverage ==
    (PeakCalled /\ output[1].duration >= 1) =>
        LET m   == input[1].measurements
            n   == output[1].duration
            ret == output[1].ret
        IN  /\ ~ret.panicked
            /\ ret.value = None <=> Len(m) < n
            /\ ret.value # None =>
                  /\ \E i \in 1 .. Len(m) - n + 1 : ret.value[1].value = WindowAvg(m, i, n)
                  /\ \A i \in 1 .. Len(m) - n + 1 : ret.value[1].value >= WindowAvg(m, i, n)

\* C11 witness: a peak over several windows of at least two samples whose
\* averages differ, the best window not being the last, has been found.
C11_Witness ==
    /\ PeakCalled
    /\ output[1].duration >= 2
    /\ Len(input[1].measurements) >= output[1].duration + 2
    /\ output[1].ret.value # None
    /\ LET m == input[1].measurements
           n == output[1].duration
       IN  /\ WindowAvg(m, Len(m) - n + 1, n) < output[1].ret.value[1].value
           /\ WindowAvg(m, 1, n) < output[1].ret.value[1].value

\* C12: a target duration of zero or negative seconds never reaches the
\* computation of peaks, and the computation never fails on one.
C12_NonPositiveDurationRejected ==
    output # None =>
        /\ ~output[1].ret.panicked
        /\ output[1].fn = "from_measurement_records" => output[1].duration >= 1
        /\ output[1].fn = "get_one" => \A d \in input[1].peak_durations : d >= 1

-----------------------------------------------------------------------------
(* Heart-rate Training Stress Score.                                       *)

\* calc_hr_tss: the tuple zones of the nine zone limits
HrZones(fthr) ==
    << TruncDiv(fthr * 73, 100),
       TruncDiv(fthr * 77, 100),
       TruncDiv(fthr * 81, 100),
       TruncDiv(fthr * 85, 100),
       TruncDiv(fthr * 89, 100),
       TruncDiv(fthr * 93, 100),
       fthr,
       TruncDiv(fthr * 103, 100),
       TruncDiv(fthr * 106, 100) >>

\* the fold closure with limits that belong to the zone below them
HrCount_Inclusive(zones, acc, hr) ==
    IF      hr <= zones[1] THEN [acc EXCEPT ![1] = @ + 1]
    ELSE IF hr <= zones[2] THEN [acc EXCEPT ![2] = @ + 1]
    ELSE IF hr <= zones[3] THEN [acc EXCEPT ![3] = @ + 1]
    ELSE IF hr <= zones[4] THEN [acc EXCEPT ![4] = @ + 1]
    ELSE IF hr <= zones[5] THEN [acc EXCEPT ![5] = @ + 1]
    ELSE IF hr <= zones[6] THEN [acc EXCEPT ![6] = @ + 1]
    ELSE IF hr <= zones[7] THEN [acc EXCEPT ![7] = @ + 1]
    ELSE IF hr <= zones[8] THEN [acc EXCEPT ![8] = @ + 1]
    ELSE IF hr <= zones[9] THEN [acc EXCEPT ![9] = @ + 1]
    ELSE                        [acc EXCEPT ![10] = @ + 1]

\* calc_hr_tss: the closure of the fold, counting hr into its zone
HrCount(zones, acc, hr) ==
    IF      hr < zones[1] THEN [acc EXCEPT ![1] = @ + 1]
    ELSE IF hr < zones[2] THEN [acc EXCEPT ![2] = @ + 1]
    ELSE IF hr < zones[3] THEN [acc EXCEPT ![3] = @ + 1]
    ELSE IF hr < zones[4] THEN [acc EXCEPT ![4] = @ + 1]
    ELSE IF hr < zones[5] THEN [acc EXCEPT ![5] = @ + 1]
    ELSE IF hr < zones[6] THEN [acc EXCEPT ![6] = @ + 1]
    ELSE IF hr < zones[7] THEN [acc EXCEPT ![7] = @ + 1]
    ELSE IF hr < zones[8] THEN [acc EXCEPT ![8] = @ + 1]
    ELSE IF hr < zones[9] THEN [acc EXCEPT ![9] = @ + 1]
    ELSE                       [acc EXCEPT ![10] = @ + 1]

\* heart_rate_data.iter().fold(acc, closure) over the samples lo .. hi, left
\* to right; the range is halved only to keep the evaluation shallow, and the
\* ten counts of the left half are complete before the right half starts
RECURSIVE HrFold(_, _, _, _, _)
HrFold(zones, heart_rate_data, lo, hi, acc) ==
    IF lo > hi THEN acc
    ELSE IF lo = hi THEN HrCount(zones, acc, heart_rate_data[lo])
    ELSE LET mid  == (lo + hi) \div 2
             left == HrFold(zones, heart_rate_data, lo, mid, acc)
         IN  CASE Len(left) = 10 ->
                 HrFold(zones, heart_rate_data, mid + 1, hi, left)

\* the literal 3600 that divides the weighted sum of calc_hr_tss
HrTssDivisor == 3600

\* calc_hr_tss: the weighted sum of the zone counts over 3600
HrWeighted(zones_count) ==
    TruncDiv(zones_count[1] * 20
             + zones_count[2] * 30
             + zones_count[3] * 40
             + zones_count[4] * 50
             + zones_count[5] * 60
             + zones_count[6] * 75
             + zones_count[7] * 100
             + zones_count[8] * 105
             + zones_count[9] * 110
             + zones_count[10] * 120,
             HrTssDivisor)

\* activity_analysis.rs: calc_hr_tss
calc_hr_tss(fthr, heart_rate_data) ==
    LET zones       == HrZones(fthr)
        zones_count == HrFold(zones, heart_rate_data, 1, Len(heart_rate_data),
                              << 0, 0, 0, 0, 0, 0, 0, 0, 0, 0 >>)
    IN  HrWeighted(zones_count)

\* metrics.rs: TSS::calculate_hr_tss, the same text as calc_hr_tss
TSS_calculate_hr_tss(fthr, heart_rate_data) ==
    LET zones       == HrZones(fthr)
        zones_count == HrFold(zones, heart_rate_data, 1, Len(heart_rate_data),
                              << 0, 0, 0, 0, 0, 0, 0, 0, 0, 0 >>)
    IN  HrWeighted(zones_count)

\* threshold heart rates reach up to MaxFTHr bpm
MaxFTHr == 178
\* a series is a long run of one value and at most MaxHrTail other samples
MaxHrTail == 1

\* threshold heart rates: a round one and the highest three
FTHrs == {100} \cup (MaxFTHr - 2 .. MaxFTHr)

\* heart rates at and just below every zone limit, and below and above all
HrVals(fthr) ==
    {0, 2 * fthr} \cup
    {HrZones(fthr)[k] - d : k \in 1 .. 9, d \in {0, 1}}

\* one hour of samples at 1 Hz, or one sample less, of one heart rate, then
\* up to MaxHrTail samples at threshold
HrSeries(fthr) ==
    {Run(a, i) \o Run(fthr, j) :
        a \in HrVals(fthr),
        i \in {0, HrTssDivisor - 1, HrTssDivisor},
        j \in 0 .. MaxHrTail}

InitHr ==
    /\ pc = "hr"
    /\ input \in UNION {{Some([fthr |-> f, heart_rate_data |-> h]) :
                            h \in HrSeries(f)} : f \in FTHrs}
    /\ output = None
    /\ IdleDaily
    /\ IdleTss
    /\ IdleNp

\* calc_hr_tss(&fthr, &heart_rate_data)
CalcHrTss ==
    /\ pc = "hr"
    /\ output = None
    /\ output' = Some([fn |-> "calc_hr_tss",
                       ret |-> calc_hr_tss(input[1].fthr, input[1].heart_rate_data)])
    /\ UNCHANGED << pc, input, dailyVars, tssVars, npVars >>

\* TSS::calculate_hr_tss(&fthr, &heart_rate_data)
TssCalculateHrTss ==
    /\ pc = "hr"
    /\ output = None
    /\ output' = Some([fn |-> "TSS::calculate_hr_tss",
                       ret |-> TSS_calculate_hr_tss(input[1].fthr,
                                                    input[1].heart_rate_data)])
    /\ UNCHANGED << pc, input, dailyVars, tssVars, npVars >>

NextHr == CalcHrTss \/ TssCalculateHrTss

SpecHr == InitHr /\ [][NextHr]_vars

-----------------------------------------------------------------------------
(* Claims about hrTSS.                                                     *)

CutPercents == << 73, 77, 81, 85, 89, 93, 100, 103, 106 >>
ZoneWeights == << 20, 30, 40, 50, 60, 75, 100, 105, 110, 120 >>

\* the cut point of p percent of fthr, in whole beats per minute
CutPoint(fthr, p) == (fthr * p) \div 100

\* the first zone whose cut point hr is below, else zone 10
ZoneIndex(fthr, hr) ==
    LET below == {k \in 1 .. 9 : hr < CutPoint(fthr, CutPercents[k])}
    IN  IF below = {} THEN 10 ELSE CHOOSE k \in below : \A j \in below : k <= j

\* C13: hrTSS is the sum over the ten zones of count(zone) * weight(zone),
\* divided by 3600 and truncated, every sample counting in the first zone
\* whose cut point (73 .. 106 percent of FTHr, in whole bpm) it is below,
\* else in zone 10.
C13_ZoneWeightedSum ==
    output # None =>
        LET fthr == input[1].fthr
            data == input[1].heart_rate_data
            zone == [i \in 1 .. Len(data) |-> ZoneIndex(fthr, data[i])]
            count(z) == Cardinality({i \in 1 .. Len(data) : zone[i] = z})
        IN  /\ \A i \in 1 .. Len(data) : zone[i] \in 1 .. 10
            /\ output[1].ret =
                   (count(1) * ZoneWeights[1] + count(2) * ZoneWeights[2]
                    + count(3) * ZoneWeights[3] + count(4) * ZoneWeights[4]
                    + count(5) * ZoneWeights[5] + count(6) * ZoneWeights[6]
                    + count(7) * ZoneWeights[7] + count(8) * ZoneWeights[8]
                    + count(9) * ZoneWeights[9] + count(10) * ZoneWeights[10])
                   \div 3600

\* C13 witness: an hour of samples just below the 93% cut point of a
\* threshold of 100 bpm, and one sample at threshold, have scored 75.
C13_Witness ==
    /\ output # None
    /\ input[1].fthr = 100
    /\ Len(input[1].heart_rate_data) = 3601
    /\ input[1].heart_rate_data[1] = 92
    /\ input[1].heart_rate_data[3601] = 100
    /\ output[1].ret = 75

\* C14: a sample equal to FTHr weighs 100, so 3600 samples at FTHr give
\* hrTSS 100; a sample above 106% of FTHr weighs 120.
C14_AtThresholdIs100 ==
    (output # None /\ Len(input[1].heart_rate_data) = 3600) =>
        LET fthr == input[1].fthr
            data == input[1].heart_rate_data
        IN  /\ (\A i \in 1 .. 3600 : data[i] = fthr) => output[1].ret = 100
            /\ (\A i \in 1 .. 3600 : data[i] * 100 > fthr * 106) => output[1].ret = 120

-----------------------------------------------------------------------------
(* Elevation gain and loss.  Altitude and AltitudeDiff wrap an f64: the    *)
(* comparison of the fold is the f64 one (false when a sample is NaN) and  *)
(* the differences and sums are rounded f64 operations.                    *)

\* the fold closure with the loss taken as next_alt - prev_alt
AltStep_SignedLoss(acc, next_alt) ==
    LET acc_gain == acc[1]
        acc_loss == acc[2]
        prev_alt == acc[3]
    IN  IF prev_alt = None THEN << acc_gain, acc_loss, Some(next_alt) >>
        ELSE IF F64Lt(prev_alt[1], next_alt)
        THEN LET cur_gain == F64Sub(next_alt, prev_alt[1])
             IN  IF acc_gain = None
                 THEN << Some(cur_gain), acc_loss, Some(next_alt) >>
                 ELSE << Some(F64Add(acc_gain[1], cur_gain)), acc_loss,
                         Some(next_alt) >>
        ELSE LET cur_loss == F64Sub(next_alt, prev_alt[1])
             IN  IF acc_loss = None
                 THEN << acc_gain, Some(cur_loss), Some(next_alt) >>
                 ELSE << acc_gain, Some(F64Add(acc_loss[1], cur_loss)),
                         Some(next_alt) >>

\* calc_altitude_changes: the closure of the fold, on
\* (acc_gain, acc_loss, prev_alt) and next_alt
AltStep(acc, next_alt) ==
    LET acc_gain == acc[1]
        acc_loss == acc[2]
        prev_alt == acc[3]
    IN  IF prev_alt = None THEN << acc_gain, acc_loss, Some(next_alt) >>
        ELSE IF F64Lt(prev_alt[1], next_alt)
        THEN LET cur_gain == F64Sub(next_alt, prev_alt[1])
             IN  IF acc_gain = None
                 THEN << Some(cur_gain), acc_loss, Some(next_alt) >>
                 ELSE << Some(F64Add(acc_gain[1], cur_gain)), acc_loss,
                         Some(next_alt) >>
        ELSE LET cur_loss == F64Sub(prev_alt[1], next_alt)
             IN  IF acc_loss = None
                 THEN << acc_gain, Some(cur_loss), Some(next_alt) >>
                 ELSE << acc_gain, Some(F64Add(acc_loss[1], cur_loss)),
                         Some(next_alt) >>

\* altitude_data.iter().fold(acc, closure) from the i-th sample on
RECURSIVE AltFold(_, _, _)
AltFold(altitude_data, i, acc) ==
    IF i > Len(altitude_data) THEN acc
    ELSE Eager(AltStep(acc, altitude_data[i]),
               LAMBDA next : AltFold(altitude_data, i + 1, next))

\* activity_analysis.rs: calc_altitude_changes, as << gain, loss >>
calc_altitude_changes(altitude_data) ==
    LET init == << None, None, None >>
        end  == AltFold(altitude_data, 1, init)
    IN  << end[1], end[2] >>

\* metrics.rs: calc_altitude_changes, the same text
metrics_calc_altitude_changes(altitude_data) ==
    LET init == << None, None, None >>
        end  == AltFold(altitude_data, 1, init)
    IN  << end[1], end[2] >>

\* altitude traces have at most MaxAltLen samples
MaxAltLen == 4
\* the altitudes of whole metres are 0 .. MaxAlt
MaxAlt == 3

\* altitudes that are not whole metres: 0.1, 0.2 and 0.4 m, and a NaN sample
AltFractions ==
    {F64(0, -56, 26843545, 161061274), F64(0, -55, 26843545, 161061274),
     F64(0, -54, 26843545, 161061274), F64QuietNaN}

\* a climb whose steps are rounded: 2^-41, 4096 + 2^-40 and 4096 + 2^-39 m
AltRoundedClimb ==
    << F64(0, -93, 16777216, 0), F64(0, -40, 16777216, 1),
       F64(0, -40, 16777216, 2) >>

AltTraces ==
    SeqUpTo({F64FromInt(n) : n \in 0 .. MaxAlt} \cup AltFractions, MaxAltLen)
        \cup {AltRoundedClimb}

InitAlt ==
    /\ pc = "alt"
    /\ input \in {Some([altitude_data |-> a]) : a \in AltTraces}
    /\ output = None
    /\ IdleDaily
    /\ IdleTss
    /\ IdleNp

\* activity_analysis::calc_altitude_changes(&altitude_data)
CalcAltitudeChanges ==
    /\ pc = "alt"
    /\ output = None
    /\ output' = Some([fn |-> "activity_analysis::calc_altitude_changes",
                       ret |-> calc_altitude_changes(input[1].altitude_data)])
    /\ UNCHANGED << pc, input, dailyVars, tssVars, npVars >>

\* metrics::calc_altitude_changes(&altitude_data)
MetricsCalcAltitudeChanges ==
    /\ pc = "alt"
    /\ output = None
    /\ output' = Some([fn |-> "metrics::calc_altitude_changes",
                       ret |-> metrics_calc_altitude_changes(input[1].altitude_data)])
    /\ UNCHANGED << pc, input, dailyVars, tssVars, npVars >>

NextAlt == CalcAltitudeChanges \/ MetricsCalcAltitudeChanges

SpecAlt == InitAlt /\ [][NextAlt]_vars

-----------------------------------------------------------------------------
(* Claims about elevation gain and loss.                                   *)

\* the f64 comparison ==
F64Eq(x, y) == F64Le(x, y) /\ F64Le(y, x)

IsFlat(a) == \A i \in 1 .. Len(a) : F64Eq(a[i], a[1])

\* no sample is below the one before and the last is above the first
IsRising(a) ==
    /\ \A i \in 1 .. Len(a) - 1 : F64Le(a[i], a[i + 1])
    /\ F64Lt(a[1], a[Len(a)])

\* C15: on a flat altitude trace of any length calc_altitude_changes returns
\* undefined gain and undefined loss.
C15_FlatIsUndefined ==
    (output # None /\ IsFlat(input[1].altitude_data)) =>
        output[1].ret = << None, None >>

\* C16: for a monotonically increasing altitude trace of at least two samples
\* calc_altitude_changes returns undefined loss and the gain last - first.
C16_RisingGain ==
    LET a == input[1].altitude_data
    IN  (output # None /\ Len(a) >= 2 /\ IsRising(a)) =>
            output[1].ret = << Some(F64Sub(a[Len(a)], a[1])), None >>

-----------------------------------------------------------------------------
(* The athlete's measurement records (athlete.rs).  An event is a pair     *)
(* << date, record >>, a record one variant of the MeasurementRecord enum. *)

FTP(power) == [kind |-> "FTP", value |-> power]
FTHr(hr) == [kind |-> "FTHr", value |-> hr]
Weight(weight) == [kind |-> "Weight", value |-> weight]

\* MeasurementRecord::get_ftp
get_ftp(m) == IF m.kind = "FTP" THEN Some(m.value) ELSE None

\* MeasurementRecord::get_fthr
get_fthr(m) == IF m.kind = "FTHr" THEN Some(m.value) ELSE None

\* one insertion of the stable sort_by on the date: e goes behind every
\* element whose date is not greater
RECURSIVE SortInsert(_, _)
SortInsert(s, e) ==
    IF s = << >> THEN << e >>
    ELSE IF s[Len(s)][1] <= e[1] THEN Append(s, e)
    ELSE Append(SortInsert(SubSeq(s, 1, Len(s) - 1), e), s[Len(s)])

\* MeasurementRecords::new: measurements.sort_by(|(a, _), (b, _)| a.cmp(b))
RECURSIVE MeasurementRecords_new(_)
MeasurementRecords_new(measurements) ==
    IF measurements = << >> THEN << >>
    ELSE SortInsert(
             MeasurementRecords_new(SubSeq(measurements, 1, Len(measurements) - 1)),
             measurements[Len(measurements)])

\* take_while with the test d < date
TakeWhileLast_Before(getter_kind, measurements, date, i, last) ==
    LET got == IF measurements[i][2].kind = getter_kind
               THEN Some(measurements[i][2].value) ELSE None
    IN  IF got = None THEN << TRUE, last >>
        ELSE IF measurements[i][1] < date THEN << TRUE, got >>
        ELSE << FALSE, last >>

\* one element through filter_map(getter), take_while(d <= date) and last:
\* << whether the iteration goes on, the last element taken so far >>
TakeWhileLast(getter_kind, measurements, date, i, last) ==
    LET got == IF measurements[i][2].kind = getter_kind
               THEN Some(measurements[i][2].value) ELSE None
    IN  IF got = None THEN << TRUE, last >>
        ELSE IF measurements[i][1] <= date THEN << TRUE, got >>
        ELSE << FALSE, last >>

\* MeasurementRecords::get_actual, the getter given by the kind it accepts
RECURSIVE get_actual_from(_, _, _, _, _)
get_actual_from(getter_kind, measurements, date, i, last) ==
    IF i > Len(measurements) THEN last
    ELSE LET step == TakeWhileLast(getter_kind, measurements, date, i, last)
         IN  IF step[1]
             THEN get_actual_from(getter_kind, measurements, date, i + 1, step[2])
             ELSE step[2]

get_actual(measurements, date, getter_kind) ==
    get_actual_from(getter_kind, measurements, date, 1, None)

\* MeasurementRecords::get_actual_ftp
get_actual_ftp(measurements, date) == get_actual(measurements, date, "FTP")

\* MeasurementRecords::get_actual_fthr
get_actual_fthr(measurements, date) == get_actual(measurements, date, "FTHr")

\* at most MaxEvents events are passed to MeasurementRecords::new
MaxEvents == 3
\* event and query dates are 0 .. MaxAthDay
MaxAthDay == 2

\* the values of the test find_ftp and of def_measurements
AthRecords == {FTP(200), FTP(210), FTHr(178), Weight(70)}
AthEvents == {<< d, m >> : d \in 0 .. MaxAthDay, m \in AthRecords}
AthLists == SeqUpTo(AthEvents, MaxEvents)

InitAth ==
    /\ pc = "ath"
    /\ input \in {Some([measurements |-> ms, date |-> d]) :
                     ms \in AthLists, d \in 0 .. MaxAthDay}
    /\ output = None
    /\ IdleDaily
    /\ IdleTss
    /\ IdleNp

\* MeasurementRecords::new(measurements)
MeasurementRecordsNew ==
    /\ pc = "ath"
    /\ output = None
    /\ output' = Some([fn |-> "new",
                       records |-> MeasurementRecords_new(input[1].measurements),
                       ret |-> None])
    /\ UNCHANGED << pc, input, dailyVars, tssVars, npVars >>

\* measurements.get_actual_ftp(&date)
GetActualFtp ==
    /\ pc = "ath"
    /\ output # None
    /\ output[1].fn = "new"
    /\ output' = Some([fn |-> "get_actual_ftp",
                       records |-> output[1].records,
                       ret |-> get_actual_ftp(output[1].records, input[1].date)])
    /\ UNCHANGED << pc, input, dailyVars, tssVars, npVars >>

\* measurements.get_actual_fthr(&date)
GetActualFthr ==
    /\ pc = "ath"
    /\ output # None
    /\ output[1].fn = "new"
    /\ output' = Some([fn |-> "get_actual_fthr",
                       records |-> output[1].records,
                       ret |-> get_actual_fthr(output[1].records, input[1].date)])
    /\ UNCHANGED << pc, input, dailyVars, tssVars, npVars >>

NextAth == MeasurementRecordsNew \/ GetActualFtp \/ GetActualFthr

SpecAth == InitAth /\ [][NextAth]_vars

-----------------------------------------------------------------------------
(* Claims about the measurement records.                                   *)

\* the events of one kind, as passed to new, dated no later than date
Qualifying(kind, date) ==
    {i \in 1 .. Len(input[1].measurements) :
        /\ input[1].measurements[i][2].kind = kind
        /\ input[1].measurements[i][1] <= date}

\* the answer is the value of a latest-dated qualifying event, or None when
\* no event qualifies
IsLatest(kind, ret) ==
    LET ms == input[1].measurements
        q  == Qualifying(kind, input[1].date)
    IN  IF q = {} THEN ret = None
        ELSE \E i \in q :
                /\ \A j \in q : ms[j][1] <= ms[i][1]
                /\ ret = Some(ms[i][2].value)

\* C17: get_actual_ftp / get_actual_fthr for a date D return the value of
\* the latest-dated event of the requested kind dated <= D, in whatever
\* order the events were passed to new, and None when no such event exists.
C17_LatestEventOfKind ==
    /\ (output # None /\ output[1].fn = "get_actual_ftp") =>
           IsLatest("FTP", output[1].ret)
    /\ (output # None /\ output[1].fn = "get_actual_fthr") =>
           IsLatest("FTHr", output[1].ret)

\* C17 witness: three FTP events passed latest first, queried between the
\* second and the third, as in the test find_ftp.
C17_Witness ==
    /\ output # None
    /\ output[1].fn = "get_actual_ftp"
    /\ input[1].measurements = << << 2, FTP(200) >>, << 1, FTP(210) >>, << 0, FTP(200) >> >>
    /\ input[1].date = 1
    /\ output[1].ret = Some(210)

-----------------------------------------------------------------------------
(* activity_analysis.rs: ActivityAnalysis::from_activity.  The activity is *)
(* given by its start time (seconds since the epoch, UTC), its duration    *)
(* (seconds) and its power, heart rate, speed and altitude samples at 1 Hz. *)

\* seconds of a day: the date of a timestamp is its day number
DaySeconds == 86400

\* activity.start_time.map(|t| t.naive_utc().into())
DateOf(t) == t \div DaySeconds

\* Option::and_then(|d| measurement_records.get_actual_*(&d))
ActualFor(date, measurement_records, getter_kind) ==
    IF date = None THEN None
    ELSE get_actual(measurement_records, date[1], getter_kind)

\* measurements.rs: Average for HeartRate
Average_HeartRate(elems) ==
    IF elems # << >> THEN Some(TruncDiv(SumSeq(elems), Len(elems))) ELSE None

\* iter().max().copied()
RECURSIVE MaxCopied(_)
MaxCopied(data) ==
    IF data = << >> THEN None
    ELSE LET rest == MaxCopied(Tail(data))
         IN  IF rest = None \/ data[1] > rest[1] THEN Some(data[1]) ELSE rest

\* f64::total_cmp: the order of the bit patterns, sign first, then the
\* exponent and fraction bits (zero and the subnormal numbers share the
\* lowest exponent); under it -0.0 is below 0.0 and a NaN of positive sign is
\* above every number
total_cmp(x, y) ==
    LET Magnitude(z) == << IF IsZero(z) THEN MinExp ELSE z.exp, z.hi, z.lo >>
        a == Magnitude(x)
        b == Magnitude(y)
        below == \/ a[1] < b[1]
                 \/ a[1] = b[1] /\ a[2] < b[2]
                 \/ a[1] = b[1] /\ a[2] = b[2] /\ a[3] < b[3]
    IN  IF x.sign # y.sign THEN (IF x.sign = 1 THEN "Less" ELSE "Greater")
        ELSE IF a = b THEN "Equal"
        ELSE IF below <=> (x.sign = 0) THEN "Less" ELSE "Greater"

\* iter().max_by(|Speed(x), Speed(y)| x.total_cmp(y)) from the i-th speed
\* on, x being the greatest so far: x is kept only when it is Greater
RECURSIVE MaxByTotalCmp(_, _, _)
MaxByTotalCmp(speed_data, i, x) ==
    IF i > Len(speed_data) THEN Some(x)
    ELSE MaxByTotalCmp(speed_data, i + 1,
             IF total_cmp(x, speed_data[i]) = "Greater" THEN x
             ELSE speed_data[i])

\* speed_data.iter().max_by(..).copied()
MaxSpeed(speed_data) ==
    IF speed_data = << >> THEN None
    ELSE MaxByTotalCmp(speed_data, 2, speed_data[1])

\* the literal 1000.0 of Work::from(Power)
WattsPerKilo == 1000

\* Work::from(Power)
Work_from(value) == F64Div(F64FromInt(value), F64FromInt(WattsPerKilo))

\* the fold of the derived Sum over the elements lo .. hi (1-based) in their
\* order, from acc (the first half of them, then the rest)
RECURSIVE SumWork(_, _, _, _)
SumWork(power_data, lo, hi, acc) ==
    IF lo > hi THEN acc
    ELSE IF lo = hi THEN F64Add(acc, Work_from(power_data[lo]))
    ELSE Eager(SumWork(power_data, lo, (lo + hi) \div 2, acc),
               LAMBDA left : SumWork(power_data, (lo + hi) \div 2 + 1, hi, left))

\* activity_analysis.rs: calc_total_work, with the sum of no f64 of the build
calc_total_work(power_data, empty_sum) ==
    SumWork(power_data, 1, Len(power_data), empty_sum)

\* activity_analysis.rs: calc_variability_index.  The quotient by an average
\* of zero is a value: NaN or an infinity.
calc_variability_index(normalized_power, average_power) ==
    F64Div(F64FromInt(normalized_power), F64FromInt(average_power))

\* the match on (ftp, normalized_power)
MatchIntensityFactor(ftp, normalized_power) ==
    IF ftp # None /\ normalized_power # None
    THEN Some(calc_intensity_factor(ftp[1], normalized_power[1]))
    ELSE None

\* the match on (normalized_power, average_power)
MatchVariabilityIndex(normalized_power, average_power) ==
    IF normalized_power # None /\ average_power # None
    THEN Some(calc_variability_index(normalized_power[1], average_power[1]))
    ELSE None

\* the match on (ftp, duration, normalized_power) with a missing duration
\* taken as zero seconds
MatchTss_ZeroDuration(ftp, duration, normalized_power) ==
    IF ftp # None /\ normalized_power # None
    THEN Some(calc_tss(ftp[1], IF duration = None THEN 0 ELSE duration[1],
                       normalized_power[1]))
    ELSE None

\* the match on (ftp, &activity.duration, &normalized_power)
MatchTss(ftp, duration, normalized_power) ==
    IF ftp # None /\ duration # None /\ normalized_power # None
    THEN Some(calc_tss(ftp[1], duration[1], normalized_power[1]))
    ELSE None

\* fthr.map(|fthr| calc_hr_tss(&fthr, &heart_rate_data))
MapHrTss(fthr, heart_rate_data) ==
    IF fthr = None THEN None ELSE Some(calc_hr_tss(fthr[1], heart_rate_data))

\* ActivityAnalysis::from_activity, with the sum of no f64 of the build; it
\* panics when PeakPerformances::from_data does: on a duration of zero
\* seconds, and on the comparison of two speed peaks one of which is NaN
from_activity(measurement_records, activity, peak_durations, empty_sum) ==
    LET date == IF activity.start_time = None THEN None
                ELSE Some(DateOf(activity.start_time[1]))
        ftp  == ActualFor(date, measurement_records, "FTP")
        fthr == ActualFor(date, measurement_records, "FTHr")
        power_data_with_timestamps == Stamped(activity.power)
        power_data == activity.power
        heart_rate_data_with_timestamps == Stamped(activity.heart_rate)
        heart_rate_data == activity.heart_rate
        speed_data_with_timestamps == Stamped(activity.speed)
        speed_data == activity.speed
        altitude_data == activity.altitude
        average_power == Average_Power(power_data)
        normalized_power == calc_normalized_power(power_data)
        altitude_changes == calc_altitude_changes(altitude_data)
        power_peaks == get_one(power_data_with_timestamps, peak_durations)
        heart_rate_peaks == get_one(heart_rate_data_with_timestamps, peak_durations)
        speed_peaks == get_one_Speed(speed_data_with_timestamps, peak_durations,
                                     empty_sum)
    IN  IF power_peaks.panicked \/ heart_rate_peaks.panicked
               \/ speed_peaks.panicked
        THEN Panicked
        ELSE Returned(
            [total_work |-> calc_total_work(power_data, empty_sum),
             normalized_power |-> normalized_power,
             intensity_factor |-> MatchIntensityFactor(ftp, normalized_power),
             variability_index |->
                 MatchVariabilityIndex(normalized_power, average_power),
             tss |-> MatchTss(ftp, activity.duration, normalized_power),
             hr_tss |-> MapHrTss(fthr, heart_rate_data),
             average_power |-> average_power,
             maximum_power |-> MaxCopied(power_data),
             average_heart_rate |-> Average_HeartRate(heart_rate_data),
             maximum_heart_rate |-> MaxCopied(heart_rate_data),
             average_speed |-> Average_Speed(speed_data, empty_sum),
             maximum_speed |-> MaxSpeed(speed_data),
             elevation_gain |-> altitude_changes[1],
             elevation_loss |-> altitude_changes[2],
             peak_performances |-> [power |-> power_peaks.value,
                                    heart_rate |-> heart_rate_peaks.value,
                                    speed |-> speed_peaks.value]])

\* the measurement lists handed to MeasurementRecords::new: none, one kind
\* only, the three of def_measurements on one day, two thresholds out of
\* order
ActRecordLists ==
    { << >>,
      << << 1, FTP(260) >> >>,
      << << 1, FTHr(178) >> >>,
      << << 1, FTP(260) >>, << 1, FTHr(178) >>, << 1, Weight(70) >> >>,
      << << 2, FTP(210) >>, << 1, FTP(200) >>, << 2, FTHr(178) >> >> }

\* start times: missing, or one hour into a day of 0 .. MaxAthDay
ActStartTimes ==
    {None} \cup {Some(d * DaySeconds + SecondsPerHour) : d \in 0 .. MaxAthDay}

ActDurations == {None, Some(SecondsPerHour)}

\* power samples: none, one, two idle ones, a steady half minute
ActPowers == {<< >>, << 200 >>, << 0, 0 >>, Run(200, NpWindow)}

ActHeartRates == {<< >>, << 150, 178 >>}

\* speed samples in m/s: none, three of 0.1, and f64::NAN followed by 1.0
ActSpeeds ==
    {<< >>,
     << F64(0, -56, 26843545, 161061274), F64(0, -56, 26843545, 161061274),
        F64(0, -56, 26843545, 161061274) >>,
     << F64QuietNaN, F64FromInt(1) >>}

\* altitude samples in metres: none, and a climb of 1 m followed by a plateau
ActAltitudes == {<< >>, << F64Zero, F64FromInt(1), F64FromInt(1) >>}

\* the peak durations of a caller, in seconds; main.rs passes positive ones
ActPeakDurations == {{1}, {2, 5}, {0, 1}}

Activities ==
    [start_time : ActStartTimes, duration : ActDurations, power : ActPowers,
     heart_rate : ActHeartRates, speed : ActSpeeds, altitude : ActAltitudes]

InitAct ==
    /\ pc = "act"
    /\ input \in {Some([measurements |-> ms, activity |-> a, peak_durations |-> S]) :
                     ms \in ActRecordLists, a \in Activities,
                     S \in ActPeakDurations}
    /\ output = None
    /\ IdleDaily
    /\ IdleTss
    /\ IdleNp

\* ActivityAnalysis::from_activity(&MeasurementRecords::new(measurements),
\*                                 &activity, &peak_durations)
FromActivity ==
    /\ pc = "act"
    /\ output = None
    /\ \E empty_sum \in EmptySums :
           output' = Some([fn |-> "from_activity",
                           ret |-> from_activity(
                                       MeasurementRecords_new(input[1].measurements),
                                       input[1].activity,
                                       input[1].peak_durations,
                                       empty_sum)])
    /\ UNCHANGED << pc, input, dailyVars, tssVars, npVars >>

NextAct == FromActivity

SpecAct == InitAct /\ [][NextAct]_vars

-----------------------------------------------------------------------------
(* Claims about the activity analysis.                                     *)

\* a threshold of the kind is on record for the day the activity started
HasThreshold(kind) ==
    /\ input[1].activity.start_time # None
    /\ \E i \in 1 .. Len(input[1].measurements) :
          /\ input[1].measurements[i][2].kind = kind
          /\ input[1].measurements[i][1] * DaySeconds
                 <= input[1].activity.start_time[1]

HasPower == input[1].activity.power # << >>

HasSpeed == input[1].activity.speed # << >>

\* the speed peaks of some duration are compared, and one of them is NaN:
\* the duration has two windows or more and a speed sample is NaN
ComparesNaNSpeed ==
    LET speed == input[1].activity.speed
    IN  /\ \E i \in 1 .. Len(speed) : IsNaN(speed[i])
        /\ \E duration \in input[1].peak_durations :
               duration >= 1 /\ duration < Len(speed)

\* C18: from_activity never fails on missing data: it fails only on a peak
\* duration of zero seconds and on the comparison of a NaN speed peak, both
\* of them data that is present; and tss is defined exactly when
\* FTP-for-date, the duration and Normalized Power are, hr_tss exactly when
\* FTHr-for-date is, intensity_factor exactly when FTP-for-date and
\* Normalized Power are, variability_index exactly when Normalized Power and
\* the average power are, the averages and maxima exactly when there are
\* samples.
C18_MissingDataIsNone ==
    (output # None /\ output[1].fn = "from_activity") =>
        /\ output[1].ret.panicked <=>
              (0 \in input[1].peak_durations \/ ComparesNaNSpeed)
        /\ ~output[1].ret.panicked =>
              LET a == output[1].ret.value
              IN  /\ (a.normalized_power # None) <=> HasPower
                  /\ (a.average_power # None) <=> HasPower
                  /\ (a.maximum_power # None) <=> HasPower
                  /\ (a.average_speed # None) <=> HasSpeed
                  /\ (a.maximum_speed # None) <=> HasSpeed
                  /\ (a.tss # None) <=>
                        /\ HasThreshold("FTP")
                        /\ input[1].activity.duration # None
                        /\ HasPower
                  /\ (a.hr_tss # None) <=> HasThreshold("FTHr")
                  /\ (a.intensity_factor # None) <=>
                        (HasThreshold("FTP") /\ HasPower)
                  /\ (a.variability_index # None) <=> HasPower

\* C18 witness: an activity without a duration and started before the first
\* heart rate threshold, but with power samples and a threshold power, was
\* analysed: no tss and no hr_tss, both ratios defined.
C18_Witness ==
    /\ output # None
    /\ output[1].fn = "from_activity"
    /\ ~output[1].ret.panicked
    /\ input[1].activity.duration = None
    /\ input[1].activity.start_time = Some(DaySeconds + SecondsPerHour)
    /\ HasPower
    /\ ~HasSpeed
    /\ output[1].ret.value.average_speed = None
    /\ output[1].ret.value.peak_performances.speed = << >>
    /\ output[1].ret.value.tss = None
    /\ output[1].ret.value.hr_tss = None
    /\ output[1].ret.value.intensity_factor = Some(F64FromInt(1))
    /\ output[1].ret.value.variability_index = Some(F64FromInt(1))

-----------------------------------------------------------------------------
(* main.rs: the aggregation of the peaks over the analyses of a directory. *)
(* A HashMap is a function from its keys.                                  *)

\* acc.entry(duration) that overwrites the value it finds
EntryMax_Overwrite(acc, duration, next_val) ==
    [d \in DOMAIN acc \cup {duration} |->
        IF d = duration THEN next_val ELSE acc[d]]

\* acc.entry(duration).and_modify(|val| if *val < next_val { *val = next_val })
\*    .or_insert(next_val)
EntryMax(acc, duration, next_val) ==
    IF duration \in DOMAIN acc
    THEN [acc EXCEPT ![duration] = IF @ < next_val THEN next_val ELSE @]
    ELSE [d \in DOMAIN acc \cup {duration} |->
             IF d = duration THEN next_val ELSE acc[d]]

\* peaks.iter().for_each(...) over the entries still to visit; the keys of a
\* map are distinct, so the order of the visit does not show
RECURSIVE ForEachPeak(_, _, _)
ForEachPeak(acc, peaks, todo) ==
    IF todo = {} THEN acc
    ELSE LET duration == CHOOSE d \in todo : TRUE
             next_val == peaks[duration].value
         IN  ForEachPeak(EntryMax(acc, duration, next_val), peaks,
                         todo \ {duration})

\* activities_with_analyses.iter().fold(HashMap::new(), ...) for the peaks of
\* one metric, from the i-th analysis on
RECURSIVE FoldPeaks(_, _, _, _)
FoldPeaks(activities_with_analyses, metric, i, acc) ==
    IF i > Len(activities_with_analyses) THEN acc
    ELSE LET peaks == activities_with_analyses[i].peak_performances[metric]
         IN  FoldPeaks(activities_with_analyses, metric, i + 1,
                       ForEachPeak(acc, peaks, DOMAIN peaks))

\* HashMap::new()
HashMapNew == [d \in {} |-> 0]

\* at most MaxAnalyses activities are analysed
MaxAnalyses == 3

\* the peaks of one activity for one metric: a peak for none, some or all of
\* the durations, each under its own duration as the key; pairs are the
\* << duration, value >> a peak may have
PeakMaps(pairs) ==
    LET peaks == {Peak(p[2], << 1, p[1] >>, p[1]) : p \in pairs}
    IN  {m \in UNION {[S -> peaks] : S \in SUBSET {p[1] : p \in pairs}} :
            \A d \in DOMAIN m : m[d].duration = d}

PowerPeakMaps == PeakMaps({<< 5, 300 >>, << 5, 400 >>, << 60, 250 >>})
SpeedPeakMaps == PeakMaps({<< 5, 9 >>})
HeartRatePeakMaps == PeakMaps({<< 60, 150 >>})

Analyses ==
    {[peak_performances |-> [power |-> p, speed |-> s, heart_rate |-> h]] :
        p \in PowerPeakMaps, s \in SpeedPeakMaps, h \in HeartRatePeakMaps}

InitMulti ==
    /\ pc = "multi"
    /\ input \in {Some([activities_with_analyses |-> as]) :
                     as \in SeqUpTo(Analyses, MaxAnalyses)}
    /\ output = None
    /\ IdleDaily
    /\ IdleTss
    /\ IdleNp

\* multi_activity: the three folds, in whatever order the analyses were
\* collected
AggregatePeaks ==
    /\ pc = "multi"
    /\ output = None
    /\ LET as == input[1].activities_with_analyses
       IN  output' = Some([fn |-> "multi_activity",
                ret |-> [power_peaks |-> FoldPeaks(as, "power", 1, HashMapNew),
                         speed_peaks |-> FoldPeaks(as, "speed", 1, HashMapNew),
                         heart_rate_peaks |->
                             FoldPeaks(as, "heart_rate", 1, HashMapNew)]])
    /\ UNCHANGED << pc, input, dailyVars, tssVars, npVars >>

NextMulti == AggregatePeaks

SpecMulti == InitMulti /\ [][NextMulti]_vars

-----------------------------------------------------------------------------
(* Claims about the aggregation of the peaks.                              *)

\* the peak values of one metric and duration over the analyses
ValuesOf(metric, d) ==
    LET as == input[1].activities_with_analyses
    IN  {as[i].peak_performances[metric][d].value :
            i \in {j \in 1 .. Len(as) : d \in DOMAIN as[j].peak_performances[metric]}}

\* the aggregate has exactly the durations some analysis has, each with the
\* greatest of the analyses' values
IsMaxPerDuration(metric, agg) ==
    /\ \A d \in {5, 60} : (d \in DOMAIN agg) <=> (ValuesOf(metric, d) # {})
    /\ \A d \in DOMAIN agg :
          /\ agg[d] \in ValuesOf(metric, d)
          /\ \A v \in ValuesOf(metric, d) : v <= agg[d]

\* C19: the aggregation over the analyses yields, for each metric and
\* duration, the maximum of the per-activity peak values, in whatever order
\* the analyses are merged.
C19_AggregateIsMax ==
    (output # None /\ output[1].fn = "multi_activity") =>
        /\ IsMaxPerDuration("power", output[1].ret.power_peaks)
        /\ IsMaxPerDuration("speed", output[1].ret.speed_peaks)
        /\ IsMaxPerDuration("heart_rate", output[1].ret.heart_rate_peaks)

\* C19 witness: three analyses were merged with the greatest 5 s power in
\* the middle and the 60 s power missing from the first.
C19_Witness ==
    /\ output # None
    /\ output[1].fn = "multi_activity"
    /\ Len(input[1].activities_with_analyses) = 3
    /\ LET as == input[1].activities_with_analyses
       IN  /\ DOMAIN as[1].peak_performances.power = {5}
           /\ as[1].peak_performances.power[5].value = 300
           /\ DOMAIN as[2].peak_performances.power = {5, 60}
           /\ as[2].peak_performances.power[5].value = 400
           /\ DOMAIN as[3].peak_performances.power = {5}
           /\ as[3].peak_performances.power[5].value = 300
    /\ output[1].ret.power_peaks = [d \in {5, 60} |-> IF d = 5 THEN 400 ELSE 250]

-----------------------------------------------------------------------------
(* Claims about the recurrence of calc_rolling (specification SpecDaily).  *)

\* the f64 literals of the six-digit factors 0.976472 and 0.023528 (42 days),
\* 0.866878 and 0.133122 (7 days), and of the tolerance 0.0005
Lit_a42 == F64(0, -53, 32764963, 86947318)
Lit_b42 == F64(0, -58, 25262997, 170475842)
Lit_a7 == F64(0, -53, 29087598, 242476674)
Lit_b7 == F64(0, -55, 17867332, 103835129)
Lit_Tol == F64(0, -63, 17179869, 49392124)

\* the load that follows prev with the day's tss, by a decay factor a and an
\* impact factor b
Recurrence(prev, tss, a, b) == F64Add(F64Mul(prev, a), F64Mul(F64FromInt(tss), b))

\* |x - y| <= 0.0005
Near(x, y) == F64Le(F64Abs(F64Sub(x, y)), Lit_Tol)

\* the state entry k (from 1) is computed from
YesterdayOf(k) ==
    IF k > 1 THEN daily_stats[k - 1]
    ELSE IF cpR # None THEN cpR[1]
    ELSE [ctl |-> F64Zero, atl |-> F64Zero]

\* the TSS of day k: the normalized entry's, and zero on the extension days
TssOf(k) == IF k <= Len(sorted) THEN sorted[k].tss ELSE 0

\* C20: in the output of calc_rolling, entry k's CTL and ATL follow, within
\* 0.0005, from entry k-1's (the checkpoint's if supplied, else zero, for the
\* first entry) and entry k's TSS by CTL_k = CTL_{k-1} * a42 + TSS_k * (1 - a42)
\* and ATL_k = ATL_{k-1} * a7 + TSS_k * (1 - a7), and every entry has
\* TSB = CTL - ATL.
C20_Recurrence ==
    Rolled =>
        \A k \in 1 .. Len(daily_stats) :
            /\ daily_stats[k].tss = TssOf(k)
            /\ Near(daily_stats[k].ctl,
                    Recurrence(YesterdayOf(k).ctl, TssOf(k), Lit_a42, Lit_b42))
            /\ Near(daily_stats[k].atl,
                    Recurrence(YesterdayOf(k).atl, TssOf(k), Lit_a7, Lit_b7))
            /\ daily_stats[k].tsb = F64Sub(daily_stats[k].ctl, daily_stats[k].atl)

\* C20 witness: a list of two days was rolled from a checkpoint whose own TSB
\* is not its CTL minus its ATL, and the first entry carries a training day.
C20_Witness ==
    /\ Rolled
    /\ cpR # None
    /\ cpR[1].tsb # F64Sub(cpR[1].ctl, cpR[1].atl)
    /\ Len(sorted) >= 2
    /\ daily_stats[1].tss = 20
    /\ F64Lt(cpR[1].ctl, daily_stats[1].ctl)
    /\ F64Lt(daily_stats[2].ctl, daily_stats[1].ctl)

-----------------------------------------------------------------------------
(* Further claims about calc_rolling (specification SpecDaily).            *)

\* C21: calc_rolling with a last known DailyStats disregards the daily TSS
\* dated before the last known point: no output entry is dated at or before
\* the checkpoint, whatever checkpoint the series was normalized with.
C21_DisregardsBeforeCheckpoint ==
    (Rolled /\ cpR # None) =>
        \A k \in 1 .. Len(daily_stats) : daily_stats[k].date > cpR[1].date

-----------------------------------------------------------------------------
(* calc_rolling step by step: one action per element that the scan pulls   *)
(* from the chained iterator.  The endless ending_days iterator is         *)
(* followed for at most ScanCap extension days.                            *)

\* the series calc_rolling is called with, normalized from raw lists one
\* entry shorter than in the pipeline, and the checkpoints: as in CalcRolling,
\* the checkpoint of the normalization or any for a series normalized
\* without one
ScanInputs ==
    {[sorted_daily_tss |-> from_unsorted(r, c[1]), last_known_stats |-> c[2]] :
        r \in SeqUpTo(RawEntries, MaxRaw - 1),
        c \in {cc \in Checkpoints \X Checkpoints : cc[1] = cc[2] \/ cc[1] = None}}

InitScan ==
    /\ pc = "scan"
    /\ input \in {Some(x) : x \in ScanInputs}
    /\ output = None
    /\ IdleDaily
    /\ IdleTss
    /\ IdleNp

\* calc_rolling up to the scan: the early return for an empty series, else
\* the start state
RollingBegin ==
    /\ pc = "scan"
    /\ output = None
    /\ LET sorted_daily_tss == input[1].sorted_daily_tss
       IN  output' =
             IF sorted_daily_tss = << >>
             THEN Some([i |-> 0, yesterdays_stats |-> None,
                        collected |-> << >>, done |-> TRUE])
             ELSE Some([i |-> 0,
                        yesterdays_stats |->
                            Some(RollingInit(sorted_daily_tss,
                                             input[1].last_known_stats)),
                        collected |-> << >>, done |-> FALSE])
    /\ UNCHANGED << pc, input, dailyVars, tssVars, npVars >>

\* one call of the closure of the scan; collect() ends at the first None
RollingNext ==
    /\ pc = "scan"
    /\ output # None
    /\ ~output[1].done
    /\ output[1].i < Len(input[1].sorted_daily_tss) + ScanCap
    /\ \E step \in {ScanStep(input[1].sorted_daily_tss, output[1].i,
                              output[1].yesterdays_stats[1])} :
           output' = Some([i |-> output[1].i + 1,
                           yesterdays_stats |-> Some(step.state),
                           collected |-> output[1].collected \o step.out,
                           done |-> ~step.goes])
    /\ UNCHANGED << pc, input, dailyVars, tssVars, npVars >>

NextScan == RollingBegin \/ RollingNext

SpecScan == InitScan /\ [][NextScan]_vars

\* the scan is a loop of one thread: its next step is always taken
SpecScanFair == SpecScan /\ WF_vars(NextScan)

-----------------------------------------------------------------------------
(* Claims about the termination of calc_rolling.                           *)

\* C22: calc_rolling terminates for every normalized series and checkpoint:
\* after the last real day the loads decay until all are below 0.45 and the
\* extension stops.
C22_Terminates == <>(output # None /\ output[1].done)

\* C22 witness: the scan has ended by itself after more than a month of
\* extension days, on a day with every load below the threshold.
C22_Witness ==
    /\ pc = "scan"
    /\ output # None
    /\ output[1].done
    /\ Len(output[1].collected) > Len(input[1].sorted_daily_tss) + 30
    /\ output[1].i = Len(output[1].collected) + 1
    /\ F64Lt(output[1].yesterdays_stats[1].ctl, KeepAt)
    /\ F64Lt(output[1].yesterdays_stats[1].atl, KeepAt)
    /\ F64Lt(output[1].yesterdays_stats[1].tsb, KeepAt)

-----------------------------------------------------------------------------
(* Further claims about Normalized Power (specification SpecNP).           *)

\* the truncated mean of the 30 samples from the i-th on
Mean30(i) == SumSeq(SubSeq(arg_power, i, i + 29)) \div 30

\* the sum of the 4th powers of the rolling means from the i-th window on
RECURSIVE SumFourth(_)
SumFourth(i) ==
    IF i > Len(arg_power) - 29 THEN 0
    ELSE Mean30(i) ^ 4 + SumFourth(i + 1)

\* C23: for n >= 30 samples calc_normalized_power is the truncated 4th root
\* of the truncated mean of the 4th powers of the n - 29 truncated 30-sample
\* rolling means; for exactly 30 samples that is the truncated mean of the
\* stream.
C23_RollingFourthRoot ==
    (res_np # None /\ Len(arg_power) >= 30) =>
        /\ res_np[1] # None
        /\ LET m == SumFourth(1) \div (Len(arg_power) - 29)
               r == res_np[1][1]
           IN  /\ r >= 0
               /\ r ^ 4 <= m
               /\ m < (r + 1) ^ 4
        /\ Len(arg_power) = 30 => res_np[1][1] = SumSeq(arg_power) \div 30

\* C23 witness: 32 samples with three different rolling means (100, 101 and
\* 103) have been normalized to 101.
C23_Witness ==
    /\ arg_power = Run(100, 30) \o << 150, 150 >>
    /\ res_np = Some(Some(101))

-----------------------------------------------------------------------------
(* Further claims about from_unsorted (specification SpecDaily).           *)

\* the rearrangements of a list
Perms(s) ==
    {[i \in 1 .. Len(s) |-> s[f[i]]] :
        f \in {g \in [1 .. Len(s) -> 1 .. Len(s)] :
                  \A i, j \in 1 .. Len(s) : g[i] = g[j] => i = j}}

\* C24: the result of from_unsorted does not depend on the order of the raw
\* entries, with or without a checkpoint: every rearrangement of the raw list
\* gives the same series.
C24_OrderIndependent ==
    Normalized => \A q \in Perms(raw) : from_unsorted(q, cpN) = sorted

\* C24 witness: with a checkpoint, the first raw entry is dated two days or
\* more after it (the zero days are filled in from it) and the other one at
\* or before it (in that order nothing is filled in), and the result is not
\* empty.
C24_Witness ==
    /\ pc = "sorted"
    /\ cpN # None
    /\ Len(raw) = 2
    /\ raw[1].date > cpN[1].date + 1
    /\ raw[2].date <= cpN[1].date
    /\ Len(sorted) >= 2


\* C25: calc_rolling returns the empty series for the empty normalized
\* series, and at least n + 1 entries for one of n >= 1 days: the first
\* extension day is kept whatever the loads.
C25_FirstExtensionDayKept ==
    Rolled =>
        /\ sorted = << >> => daily_stats = << >>
        /\ sorted # << >> => Len(daily_stats) >= Len(sorted) + 1

\* C25 witness: every load is below the threshold on the last real day and
\* on the day after it, and that day is the only extension day.
C25_Witness ==
    /\ Rolled
    /\ sorted # << >>
    /\ Len(daily_stats) = Len(sorted) + 1
    /\ \A k \in {Len(sorted), Len(sorted) + 1} :
          /\ F64Lt(daily_stats[k].ctl, KeepAt)
          /\ F64Lt(daily_stats[k].atl, KeepAt)
          /\ F64Lt(daily_stats[k].tsb, KeepAt)

\* C26: the series returned by calc_rolling is dense: it begins on the first
\* normalized day, every later entry is dated one day after its predecessor,
\* and every entry after the last normalized day has TSS 0.
C26_Dense ==
    (Rolled /\ sorted # << >>) =>
        /\ daily_stats[1].date = sorted[1].date
        /\ \A k \in 2 .. Len(daily_stats) :
              daily_stats[k].date = daily_stats[k - 1].date + 1
        /\ \A k \in Len(sorted) + 1 .. Len(daily_stats) : daily_stats[k].tss = 0

\* C26 witness: a series of two days or more was rolled and extended by more
\* than a week.
C26_Witness ==
    /\ Rolled
    /\ Len(sorted) >= 2
    /\ Len(daily_stats) > Len(sorted) + 7
    /\ LastStats.date = sorted[1].date + Len(daily_stats) - 1

-----------------------------------------------------------------------------
(* Further claims about the peak finder (specification SpecPeak).          *)

\* the windows of n samples, by the index of their first sample
WindowStarts(m, n) == 1 .. (Len(m) - n + 1)

\* the windows whose average is the greatest
BestStarts(m, n) ==
    {i \in WindowStarts(m, n) :
        \A j \in WindowStarts(m, n) : WindowAvg(m, j, n) <= WindowAvg(m, i, n)}

\* C27: when several windows share the maximal average, the Peak returned by
\* from_measurement_records is the last of them: its timestamps are those of
\* the first and last sample of the last window whose average is the
\* maximum, and its duration is the requested one.
C27_LastOfEqualPeaks ==
    (PeakCalled /\ output[1].duration >= 1 /\ ~output[1].ret.panicked
        /\ output[1].ret.value # None) =>
        LET m    == input[1].measurements
            n    == output[1].duration
            peak == output[1].ret.value[1]
        IN  \E i \in BestStarts(m, n) :
                /\ \A j \in BestStarts(m, n) : j <= i
                /\ peak.timestamps = << m[i][2], m[i + n - 1][2] >>
                /\ peak.duration = n

\* C27 witness: the first and the last window of two samples have the
\* greatest average, and the last one is returned.
C27_Witness ==
    /\ PeakCalled
    /\ output[1].duration = 2
    /\ Len(input[1].measurements) = 4
    /\ BestStarts(input[1].measurements, 2) = {1, 3}
    /\ output[1].ret.value # None
    /\ output[1].ret.value[1].timestamps
           = << input[1].measurements[3][2], input[1].measurements[4][2] >>

-----------------------------------------------------------------------------
(* Further claims about elevation gain and loss (specification SpecAlt).   *)

\* an undefined total read as 0
OrZero(total) == IF total = None THEN F64Zero ELSE total[1]

\* the samples are whole metres
IsWholeMetres(a) == \A i \in 1 .. Len(a) : \E n \in 0 .. MaxAlt : a[i] = F64FromInt(n)

\* the samples are numbers
IsNaNFree(a) == \A i \in 1 .. Len(a) : ~IsNaN(a[i])

\* gain - loss and last - first, each an f64 difference
NetOfTotals(ret) == F64Sub(OrZero(ret[1]), OrZero(ret[2]))
NetOfTrace(a) == F64Sub(a[Len(a)], a[1])

\* n * 2^-52 * (gain + loss), in f64
NetTolerance(n, ret) ==
    F64Mul(F64Ldexp(F64FromInt(n), -52), F64Add(OrZero(ret[1]), OrZero(ret[2])))

GetOneCalled == output # None /\ output[1].fn = "get_one"

GetOneSpeedCalled == output # None /\ output[1].fn = "get_one_Speed"

\* every speed of the series is a number and at least 0
IsNonNegative(m) == \A i \in 1 .. Len(m) : F64Le(F64Zero, m[i][1])

\* every window of the series has an exact f64 sum: the speeds are 0 or 0.5
HasExactSums(m) ==
    \A i \in 1 .. Len(m) : m[i][1] \in {F64Zero, F64(0, -53, 16777216, 0)}

\* 1 + d * 2^-52, the bound on the growth by rounding of an f64 average of d
\* speeds over one of fewer
RoundingFactor(d) == F64Add(F64FromInt(1), F64Ldexp(F64FromInt(d), -52))

\* C29 as stated: for one sequence of non-negative values of any metric and
\* two durations d1 and d2 with d1 dividing d2, whenever the peak for d2 is
\* defined the peak for d1 is defined and peak(d2).value <= peak(d1).value.
C29_AnyMetric ==
    /\ (GetOneCalled /\ ~output[1].ret.panicked) =>
          LET peaks == output[1].ret.value
          IN  \A d1, d2 \in input[1].peak_durations :
                  (d1 >= 1 /\ d2 % d1 = 0 /\ d2 \in DOMAIN peaks) =>
                      /\ d1 \in DOMAIN peaks
                      /\ peaks[d2].value <= peaks[d1].value
    /\ (GetOneSpeedCalled /\ ~output[1].ret.panicked
            /\ IsNonNegative(input[1].measurements)) =>
          LET peaks == output[1].ret.value
          IN  \A d1, d2 \in input[1].peak_durations :
                  (d1 >= 1 /\ d2 % d1 = 0 /\ d2 \in DOMAIN peaks) =>
                      /\ d1 \in DOMAIN peaks
                      /\ F64Le(peaks[d2].value, peaks[d1].value)

\* C29, amended: for one sequence of non-negative values and two durations
\* d1 and d2 with d1 dividing d2, whenever the peak for d2 is defined the
\* peak for d1 is defined; under the truncating integer average
\* peak(d2).value <= peak(d1).value; under the f64 average of Speed
\* peak(d2).value <= peak(d1).value * (1 + d2 * 2^-52), and
\* peak(d2).value <= peak(d1).value when the window sums are exact.
C29_ShorterPeakIsHigher ==
    /\ (GetOneCalled /\ ~output[1].ret.panicked) =>
          LET peaks == output[1].ret.value
          IN  \A d1, d2 \in input[1].peak_durations :
                  (d1 >= 1 /\ d2 % d1 = 0 /\ d2 \in DOMAIN peaks) =>
                      /\ d1 \in DOMAIN peaks
                      /\ peaks[d2].value <= peaks[d1].value
    /\ (GetOneSpeedCalled /\ ~output[1].ret.panicked
            /\ IsNonNegative(input[1].measurements)) =>
          LET peaks == output[1].ret.value
          IN  \A d1, d2 \in input[1].peak_durations :
                  (d1 >= 1 /\ d2 % d1 = 0 /\ d2 \in DOMAIN peaks) =>
                      /\ d1 \in DOMAIN peaks
                      /\ F64Le(peaks[d2].value,
                               F64Mul(peaks[d1].value, RoundingFactor(d2)))
                      /\ HasExactSums(input[1].measurements) =>
                            F64Le(peaks[d2].value, peaks[d1].value)

\* C29 witness: the peaks of one and of three seconds were taken from the
\* speeds 0.1, 0.1, 0.1: the average of the three is 0.10000000000000002 and
\* exceeds the peak of one second, 0.1.
C29_Witness ==
    /\ GetOneSpeedCalled
    /\ ~output[1].ret.panicked
    /\ input[1].peak_durations = {1, 3}
    /\ Len(input[1].measurements) = 3
    /\ \A i \in 1 .. 3 :
          input[1].measurements[i][1] = F64(0, -56, 26843545, 161061274)
    /\ DOMAIN output[1].ret.value = {1, 3}
    /\ output[1].ret.value[1].value = F64(0, -56, 26843545, 161061274)
    /\ output[1].ret.value[3].value = F64(0, -56, 26843545, 161061275)

-----------------------------------------------------------------------------
(* Claims about the range of the loads (specification SpecDaily).          *)

\* x lies between a and b, whichever is the greater
Between(x, a, b) ==
    \/ F64Le(a, x) /\ F64Le(x, b)
    \/ F64Le(b, x) /\ F64Le(x, a)

\* the greatest TSS of the normalized series (0 for none)
RECURSIVE MaxTssFrom(_)
MaxTssFrom(k) ==
    IF k > Len(sorted) THEN 0
    ELSE LET rest == MaxTssFrom(k + 1)
         IN  IF sorted[k].tss > rest THEN sorted[k].tss ELSE rest

\* C30: in every series of calc_rolling each day's CTL lies between the
\* previous day's CTL and the day's TSS, and likewise ATL; from the zero state
\* every entry has 0 <= CTL <= max TSS and 0 <= ATL <= max TSS; CTL and ATL
\* never increase on extension days.
C30_LoadsWithinRange ==
    Rolled =>
        /\ \A k \in 1 .. Len(daily_stats) :
              /\ Between(daily_stats[k].ctl, YesterdayOf(k).ctl, F64FromInt(TssOf(k)))
              /\ Between(daily_stats[k].atl, YesterdayOf(k).atl, F64FromInt(TssOf(k)))
        /\ cpR = None =>
              \A k \in 1 .. Len(daily_stats) :
                  /\ F64Le(F64Zero, daily_stats[k].ctl)
                  /\ F64Le(daily_stats[k].ctl, F64FromInt(MaxTssFrom(1)))
                  /\ F64Le(F64Zero, daily_stats[k].atl)
                  /\ F64Le(daily_stats[k].atl, F64FromInt(MaxTssFrom(1)))
        /\ \A k \in Len(sorted) + 1 .. Len(daily_stats) :
              /\ F64Le(daily_stats[k].ctl, YesterdayOf(k).ctl)
              /\ F64Le(daily_stats[k].atl, YesterdayOf(k).atl)

\* C30 witness: from a checkpoint with CTL 1.0 and ATL 1.5, a day of TSS 20
\* has brought both strictly between their old value and 20, and extension
\* days on which both fall follow.
C30_Witness ==
    /\ Rolled
    /\ cpR # None
    /\ sorted # << >>
    /\ sorted[1].tss = 20
    /\ F64Lt(cpR[1].ctl, daily_stats[1].ctl)
    /\ F64Lt(daily_stats[1].ctl, F64FromInt(20))
    /\ F64Lt(cpR[1].atl, daily_stats[1].atl)
    /\ F64Lt(daily_stats[1].atl, F64FromInt(20))
    /\ Len(daily_stats) > Len(sorted) + 1
    /\ F64Lt(LastStats.ctl, daily_stats[Len(sorted)].ctl)
    /\ F64Lt(LastStats.atl, daily_stats[Len(sorted)].atl)

=============================================================================
